---- MODULE Spec2Model ----
(***************************************************************************)
(* Weather agent tools: the natural-language earthquake query normaliser   *)
(* (sub_agents/earthquake_agent/agent.py) and the historical-weather time  *)
(* period resolver (sub_agents/meterologist/agent.py), as state machines.  *)
(*                                                                         *)
(* Texts are sequences of tokens (the words of the text, split at single   *)
(* blanks).  Python's substring tests and regular expressions are written  *)
(* as tests on the tokens.  Optional values are sets with at most one      *)
(* element: None is {} and a value v is {v}.  Magnitudes are in tenths.    *)
(*                                                                         *)
(* The local API server (local_api_server.py) keeps two tables, sessions   *)
(* and runners; its handlers run on one event loop and give way to each    *)
(* other only where they await.                                            *)
(***************************************************************************)
EXTENDS Integers, Sequences, FiniteSets, TLC

VARIABLES now, ticks, call, locals, sent, result, sessions, runners, queries, issued, response

vars == <<now, ticks, call, locals, sent, result, sessions, runners, queries, issued, response>>

\* the tables of the API server, its query_agent coroutines, the number of
\* session ids handed out and the last response sent
server == <<sessions, runners, queries, issued, response>>

NoResponse == [op |-> "none", session_id |-> 0, code |-> 0, error |-> "", q |-> 0]

\* sessions = {} and runners = {} when the module is loaded
ServerAtStart ==
    /\ sessions = <<>>
    /\ runners = <<>>
    /\ queries = <<>>
    /\ issued = 0
    /\ response = NoResponse

None == {}

Some(v) == {v}

The(o) == CHOOSE v \in o : TRUE

(***************************************************************************)
(* Calendar arithmetic of Python's datetime (proleptic Gregorian).         *)
(***************************************************************************)
IsLeap(y) == (y % 4 = 0) /\ ((y % 100 # 0) \/ (y % 400 = 0))

DaysInMonth(y, m) ==
    IF m = 2 THEN (IF IsLeap(y) THEN 29 ELSE 28)
    ELSE IF m \in {4, 6, 9, 11} THEN 30 ELSE 31

DaysBeforeYear(y) ==
    365 * (y - 1) + ((y - 1) \div 4) - ((y - 1) \div 100) + ((y - 1) \div 400)

RECURSIVE DaysBeforeMonth(_, _)
DaysBeforeMonth(y, m) ==
    IF m = 1 THEN 0 ELSE DaysBeforeMonth(y, m - 1) + DaysInMonth(y, m - 1)

ValidYMD(y, m, d) ==
    /\ y \in 1..9999          \* datetime.MINYEAR..datetime.MAXYEAR
    /\ m \in 1..12
    /\ d \in 1..DaysInMonth(y, m)

\* date.toordinal(): 0001-01-01 is day 1
Ordinal(y, m, d) == DaysBeforeYear(y) + DaysBeforeMonth(y, m) + d

MaxOrdinal == Ordinal(9999, 12, 31)

\* the year of an ordinal day
YearOf(n) ==
    LET guess == ((n - 1) \div 366) + 1
        y == CHOOSE c \in guess..(guess + 8) :
                 DaysBeforeYear(c) < n /\ n <= DaysBeforeYear(c + 1)
    IN y

MonthOf(n) ==
    LET y == YearOf(n)
        doy == n - DaysBeforeYear(y)
    IN CHOOSE m \in 1..12 :
           DaysBeforeMonth(y, m) < doy /\ doy <= DaysBeforeMonth(y, m) + DaysInMonth(y, m)

DayOf(n) == n - DaysBeforeYear(YearOf(n)) - DaysBeforeMonth(YearOf(n), MonthOf(n))

(***************************************************************************)
(* A datetime is [day |-> ordinal day, tod |-> time of day]; tod 0 is      *)
(* midnight.  An operation that raises yields Raised.                      *)
(***************************************************************************)
Raised == [day |-> 0, tod |-> 0]

\* datetime(year, month, day)
MkDatetime(y, m, d) ==
    IF ValidYMD(y, m, d) THEN [day |-> Ordinal(y, m, d), tod |-> 0] ELSE Raised

\* a replace that sets the year alone and keeps the month and the day
Replace_YearOnly(dt, y, m, d) ==
    IF ValidYMD(y, MonthOf(dt.day), DayOf(dt.day))
    THEN [day |-> Ordinal(y, MonthOf(dt.day), DayOf(dt.day)), tod |-> dt.tod]
    ELSE Raised

\* dt.replace(year=y, month=m, day=d): the time of day is kept
Replace(dt, y, m, d) ==
    IF ValidYMD(y, m, d) THEN [day |-> Ordinal(y, m, d), tod |-> dt.tod] ELSE Raised

\* a subtraction that stops at the first day of the calendar
MinusDays_Clamped(dt, n) ==
    IF dt.day - n >= 1 THEN [day |-> dt.day - n, tod |-> dt.tod]
    ELSE [day |-> 1, tod |-> dt.tod]

\* dt - timedelta(days=n)
MinusDays(dt, n) ==
    IF dt.day - n \in 1..MaxOrdinal THEN [day |-> dt.day - n, tod |-> dt.tod] ELSE Raised

\* a > b on datetimes
DtGreater(a, b) == a.day > b.day \/ (a.day = b.day /\ a.tod > b.tod)

(***************************************************************************)
(* Date strings.  form "ymd" is text of the shape YYYY-MM-DD with a four   *)
(* digit year, "short" is the same with a year of fewer than four digits   *)
(* (what strftime("%Y") of the C library gives for a year below 1000 when  *)
(* it does not pad), "loose" is a date with a one-digit month or day such  *)
(* as 2024-1-5 (strptime's %m and %d take one digit or two), "text" is any *)
(* other text and "empty" is "".                                           *)
(***************************************************************************)
DateStr(form, y, m, d) == [form |-> form, y |-> y, m |-> m, d |-> d]

\* dt.strftime("%Y-%m-%d"); pad: whether the platform pads %Y to four digits
Strftime(dt, pad) ==
    LET y == YearOf(dt.day)
    IN DateStr(IF y >= 1000 \/ pad THEN "ymd" ELSE "short",
               y, MonthOf(dt.day), DayOf(dt.day))

\* datetime.strptime(s, "%Y-%m-%d"); Raised stands for ValueError
Strptime(s) ==
    IF s.form \in {"ymd", "loose"} THEN MkDatetime(s.y, s.m, s.d) ELSE Raised

\* Python truth value of an optional string
Falsy(o) == o = None \/ The(o).form = "empty"

(***************************************************************************)
(* Time period texts: a word, a run of digits (at most four, no leading    *)
(* zero) or two such runs joined by "-".                                   *)
(***************************************************************************)
W(s) == [k |-> "w", s |-> s, a |-> 0, b |-> 0]

Num(n) == [k |-> "n", s |-> "", a |-> n, b |-> 0]

Rng(a, b) == [k |-> "r", s |-> "", a |-> a, b |-> b]

\* str.lower() on the words of the vocabulary
Lower(s) ==
    CASE s = "Past" -> "past"
      [] s = "Last" -> "last"
      [] s = "Winter" -> "winter"
      [] s = "Tokyo" -> "tokyo"
      [] s = "Japan" -> "japan"
      [] s = "New" -> "new"
      [] s = "Zealand" -> "zealand"
      [] s = "Near" -> "near"
      [] s = "Osaka" -> "osaka"
      [] s = "Bay" -> "bay"
      [] s = "Magnitude" -> "magnitude"
      [] s = "Today" -> "today"
      [] s = "Mediterranean" -> "mediterranean"
      [] s = "Pacific Ring of Fire" -> "pacific ring of fire"
      [] s = "Atlantis" -> "atlantis"
      [] s = "Fiji" -> "fiji"
      [] s = "Paris" -> "paris"
      [] s = "PARIS" -> "paris"
      [] s = "France" -> "france"
      [] s = "Lyon" -> "lyon"
      [] OTHER -> s

\* the lower-case words of the vocabulary that contain sub as a substring
WordsContaining(sub) ==
    CASE sub = "past" -> {"past"}
      [] sub = "last" -> {"last"}
      [] sub = "previous" -> {"previous"}
      [] sub = "year" -> {"year", "years"}
      [] sub = "month" -> {"month", "months"}
      [] sub = "day" -> {"day", "days", "today", "yesterday"}
      [] sub = "week" -> {"week", "weeks"}
      [] sub = "winter" -> {"winter"}
      [] sub = "summer" -> {"summer"}
      [] sub = "spring" -> {"spring"}
      [] sub = "autumn" -> {"autumn"}
      [] sub = "fall" -> {"fall", "rainfall"}
      [] sub = "today" -> {"today"}
      [] sub = "yesterday" -> {"yesterday"}
      [] sub = "recent" -> {"recent"}
      [] sub = "significant" -> {"significant"}
      [] sub = "major" -> {"major"}
      [] sub = "minor" -> {"minor"}
      [] sub = "ago" -> {"ago"}
      [] sub = "history" -> {"history"}
      [] sub = "historical" -> {"historical"}
      [] sub = "march" -> {"march"}
      [] sub = "may" -> {"may", "mayor"}
      [] sub = "august" -> {"august"}
      [] OTHER -> {}

\* the lower-case words of the vocabulary that end with suf
WordsEnding(suf) ==
    CASE suf = "in" -> {"berlin", "in", "within"}
      [] suf = "near" -> {"near"}
      [] suf = "around" -> {"around"}
      [] suf = "last" -> {"last"}
      [] suf = "past" -> {"past"}
      [] suf = "this" -> {"this"}
      [] suf = "earthquake" -> {"earthquake"}
      [] suf = "earthquakes" -> {"earthquakes"}
      [] suf = "seismic" -> {"seismic"}
      [] suf = "activity" -> {"activity"}
      [] suf = "magnitude" -> {"magnitude"}
      [] suf = "mag" -> {"mag"}
      [] suf = "above" -> {"above"}
      [] suf = "than" -> {"than"}
      [] suf = "stronger" -> {"stronger"}
      [] suf = "within" -> {"within"}
      [] suf = "km" -> {"km"}
      [] OTHER -> {}

\* the lower-case words of the vocabulary that start with pre
WordsStarting(pre) ==
    CASE pre = "last" -> {"last"}
      [] pre = "past" -> {"past"}
      [] pre = "during" -> {"during"}
      [] pre = "within" -> {"within"}
      [] pre = "over" -> {"over"}
      [] pre = "day" -> {"day", "days"}
      [] pre = "week" -> {"week", "weeks"}
      [] pre = "month" -> {"month", "months"}
      [] pre = "magnitude" -> {"magnitude"}
      [] pre = "above" -> {"above"}
      [] pre = "higher" -> {"higher"}
      [] pre = "km" -> {"km"}
      [] pre = "radius" -> {"radius"}
      [] pre = "kilometer" -> {"kilometers"}
      [] pre = "mile" -> {"mile", "miles"}
      [] pre = "than" -> {"than"}
      [] OTHER -> {}

\* sub in text.lower()
Contains(text, sub) ==
    \E i \in 1..Len(text) :
        text[i].k = "w" /\ Lower(text[i].s) \in WordsContaining(sub)

IsFourDigit(n) == n \in 1000..9999

\* re.findall(r'\d+', text): the first digit run, if any
FirstNumber(text) ==
    LET idx == {i \in 1..Len(text) : text[i].k \in {"n", "r"}}
    IN IF idx = {} THEN None
       ELSE Some(text[CHOOSE i \in idx : \A j \in idx : i <= j].a)

\* the four-digit runs of one token, in order
FourDigitRuns(t) ==
    IF t.k = "n" THEN (IF IsFourDigit(t.a) THEN <<t.a>> ELSE <<>>)
    ELSE IF t.k = "r"
         THEN (IF IsFourDigit(t.a) THEN <<t.a>> ELSE <<>>)
              \o (IF IsFourDigit(t.b) THEN <<t.b>> ELSE <<>>)
         ELSE <<>>

\* re.findall(r'\d{4}', text): the first match, if any
FirstFourDigits(text) ==
    LET idx == {i \in 1..Len(text) : FourDigitRuns(text[i]) # <<>>}
    IN IF idx = {} THEN None
       ELSE Some(FourDigitRuns(text[CHOOSE i \in idx : \A j \in idx : i <= j])[1])

\* re.match(r'^\d{4}$', text)
IsSingleYear(text) == Len(text) = 1 /\ text[1].k = "n" /\ IsFourDigit(text[1].a)

\* re.match(r'^\d{4}-\d{4}$', text)
IsYearRange(text) ==
    Len(text) = 1 /\ text[1].k = "r" /\ IsFourDigit(text[1].a) /\ IsFourDigit(text[1].b)

(***************************************************************************)
(* get_historical_weather: the time period parser.                         *)
(***************************************************************************)
\* the 5-day delay the parser subtracts from today
DelayDays == 5

Parsed(kind, s, e) == [kind |-> kind, start_dt |-> s, end_dt |-> e]

\* a computed pair of datetimes; an exception raised on the way propagates
Computed(s, e) ==
    IF s = Raised \/ e = Raised THEN Parsed("raised", Raised, Raised)
    ELSE Parsed("range", s, e)

\* a walk that borrows no year: the month alone is brought into 1..12
MonthsWalk_NoBorrow(months_ago, year_offset) ==
    <<((months_ago - 1) % 12) + 1, year_offset>>

\* while months_ago <= 0: months_ago += 12; year_offset -= 1
\* (a thousand, a hundred or ten turns of the loop are taken at once while that
\* many are due)
RECURSIVE MonthsWalk(_, _)
MonthsWalk(months_ago, year_offset) ==
    IF months_ago <= -12000 THEN MonthsWalk(months_ago + 12000, year_offset - 1000)
    ELSE IF months_ago <= -1200 THEN MonthsWalk(months_ago + 1200, year_offset - 100)
    ELSE IF months_ago <= -120 THEN MonthsWalk(months_ago + 120, year_offset - 10)
    ELSE IF months_ago <= 0 THEN MonthsWalk(months_ago + 12, year_offset - 1)
    ELSE <<months_ago, year_offset>>

\* the branch taken when the text contains past, last or previous
RelativeSpan(text, today) ==
    LET numbers == FirstNumber(text)
        num == The(numbers)
        year == YearOf(today.day)
        walk == MonthsWalk(MonthOf(today.day) - num, 0)
    IN IF numbers = None THEN Parsed("no_number", Raised, Raised)
       ELSE IF Contains(text, "year")
            THEN Computed(Replace(today, year - num, 1, 1), MinusDays(today, DelayDays))
       ELSE IF Contains(text, "month")
            THEN Computed(Replace(today, year + walk[2], walk[1], 1),
                          MinusDays(today, DelayDays))
       ELSE IF Contains(text, "day")
            THEN Computed(MinusDays(today, num + DelayDays), MinusDays(today, DelayDays))
       ELSE IF Contains(text, "week")
            THEN Computed(MinusDays(today, 7 * num + DelayDays),
                          MinusDays(today, DelayDays))
       ELSE Parsed("unable_to_parse", Raised, Raised)

\* a season branch that ends winter on the leap day
Season_LeapDay(text, m1, d1, dy, m2, d2) ==
    LET year_match == FirstFourDigits(text)
        year == The(year_match)
    IN IF year_match = None THEN Parsed("season_needs_year", Raised, Raised)
       ELSE Computed(MkDatetime(year, m1, d1),
                     MkDatetime(year + dy, m2,
                                IF m2 = 2 /\ IsLeap(year + dy) THEN 29 ELSE d2))

\* a season branch: the first four-digit run is the year
Season(text, m1, d1, dy, m2, d2) ==
    LET year_match == FirstFourDigits(text)
        year == The(year_match)
    IN IF year_match = None THEN Parsed("season_needs_year", Raised, Raised)
       ELSE Computed(MkDatetime(year, m1, d1), MkDatetime(year + dy, m2, d2))

\* lines 526-609: the if / elif chain over time_period.lower().strip()
ParseTimePeriod(text, today) ==
    IF Contains(text, "past") \/ Contains(text, "last") \/ Contains(text, "previous")
    THEN RelativeSpan(text, today)
    ELSE IF IsSingleYear(text)
    THEN Computed(MkDatetime(text[1].a, 1, 1), MkDatetime(text[1].a, 12, 31))
    ELSE IF IsYearRange(text)
    THEN Computed(MkDatetime(text[1].a, 1, 1), MkDatetime(text[1].b, 12, 31))
    ELSE IF Contains(text, "winter") THEN Season(text, 12, 1, 1, 2, 28)
    ELSE IF Contains(text, "summer") THEN Season(text, 6, 1, 0, 8, 31)
    ELSE IF Contains(text, "spring") THEN Season(text, 3, 1, 0, 5, 31)
    ELSE IF Contains(text, "autumn") \/ Contains(text, "fall")
    THEN Season(text, 9, 1, 0, 11, 30)
    ELSE Parsed("unable_to_parse", Raised, Raised)

(***************************************************************************)
(* get_historical_weather: validation and the archive request.             *)
(***************************************************************************)
\* the archive's delay checked by the validation
EmbargoDays == 5

\* the first year the archive holds
MinYear == 1940

\* a validation without the check of the delay
ValidateRange_NoEmbargo(start_date, end_date, today) ==
    LET start_dt == Strptime(start_date)
        end_dt == Strptime(end_date)
    IN IF start_dt = Raised \/ end_dt = Raised THEN "invalid_format"
       ELSE IF YearOf(start_dt.day) < MinYear THEN "too_old"
       ELSE "ok"

\* a validation that compares whole days with >= and so rejects today - 5 days
ValidateRange_Inclusive(start_date, end_date, today) ==
    LET start_dt == Strptime(start_date)
        end_dt == Strptime(end_date)
    IN IF start_dt = Raised \/ end_dt = Raised THEN "invalid_format"
       ELSE IF end_dt.day >= today.day - EmbargoDays THEN "too_recent"
       ELSE IF YearOf(start_dt.day) < MinYear THEN "too_old"
       ELSE "ok"

\* lines 622-645: "ok", or the error returned
ValidateRange(start_date, end_date, today) ==
    LET start_dt == Strptime(start_date)
        end_dt == Strptime(end_date)
    IN IF start_dt = Raised \/ end_dt = Raised THEN "invalid_format"
       ELSE IF DtGreater(end_dt, MinusDays(today, EmbargoDays)) THEN "too_recent"
       ELSE IF YearOf(start_dt.day) < MinYear THEN "too_old"
       ELSE "ok"

NoLocals == [start_dt |-> None, end_dt |-> None]

Outcome(status, error, period, lcl, requests) ==
    [result |-> [status |-> status, error |-> error, period |-> period],
     locals |-> lcl, sent |-> requests]

Failure(error, lcl) == Outcome("error", error, <<>>, lcl, <<>>)

\* lines 647-919: the request with the validated dates and the provider's answer
ArchiveRequest(start_date, end_date, lcl, provider) ==
    LET start_dt == Strptime(start_date)
        end_dt == Strptime(end_date)
        request == [api |-> "archive", start_date |-> start_date, end_date |-> end_date,
                    hourly |-> (end_dt.day - start_dt.day <= 31)]
    IN IF provider = "ok"
       THEN Outcome("success", "", <<start_date, end_date>>, lcl, <<request>>)
       ELSE Outcome("error", "provider", <<>>, lcl, <<request>>)

\* lines 620-645 and on, with the dates either resolved or supplied
ValidateAndFetch(start_date, end_date, lcl, today, provider) ==
    LET verdict == ValidateRange(start_date, end_date, today)
    IN IF verdict = "ok" THEN ArchiveRequest(start_date, end_date, lcl, provider)
       ELSE Failure(verdict, lcl)

\* lines 510-919
HistoricalWeather(time_period, start_date, end_date, env, today) ==
    IF env.geo = "error" THEN Failure("geocoding", NoLocals)
    ELSE IF time_period # None /\ The(time_period) # <<>>
            /\ Falsy(start_date) /\ Falsy(end_date)
    THEN LET parsed == ParseTimePeriod(The(time_period), today)
             lcl == [start_dt |-> Some(parsed.start_dt), end_dt |-> Some(parsed.end_dt)]
         IN IF parsed.kind = "raised" THEN Failure("exception", NoLocals)
            ELSE IF parsed.kind # "range" THEN Failure(parsed.kind, NoLocals)
            ELSE ValidateAndFetch(Strftime(parsed.start_dt, env.pad),
                                  Strftime(parsed.end_dt, env.pad),
                                  lcl, today, env.provider)
    ELSE IF Falsy(start_date) \/ Falsy(end_date) THEN Failure("need_both_dates", NoLocals)
    ELSE ValidateAndFetch(The(start_date), The(end_date), NoLocals, today, env.provider)

(***************************************************************************)
(* The clock, and the calls of the historical-weather tool.                *)
(***************************************************************************)
\* number of half-day steps the clock takes
MaxTicks == 12

\* largest small count N tried in "past N <unit>"
MaxCount == 6

Idle == [fn |-> "none"]

NoResult == [status |-> "none", error |-> "", period |-> <<>>]

StartClocks ==
    {[day |-> Ordinal(2024, 12, 31), tod |-> 0],
     [day |-> Ordinal(2025, 6, 17), tod |-> 0]}

Counts == (0..MaxCount) \cup {12, 13, 30}

\* spans of years that reach the year 1940, the year 999, the year 1 and beyond
LongCounts == {84, 85, 86, 1025, 1026, 2023, 2024, 2025, 2026}

\* spans of months that reach January of the year 1 and the month before it
LongMonthCounts == {1000, 24287, 24288, 24293, 24294}

\* spans of days and of weeks that reach the first day of the calendar
LongDayCounts == {400, 739245, 739246, 739430}

LongWeekCounts == {60, 105606, 105607, 105640}

Years == {1939, 1940, 2000, 2023, 2024, 2025, 2026}

Anchors == {"past", "last", "previous", "Past"}

Units == {"year", "years", "months", "days", "weeks", "week"}

Seasons == {"winter", "summer", "spring", "autumn", "fall", "Winter", "rainfall"}

TimePeriods ==
    {<<W(a), Num(n), W(u)>> : a \in Anchors, n \in Counts, u \in Units}
    \cup {<<W(a), Num(n), W("years")>> : a \in {"past", "last"}, n \in LongCounts}
    \cup {<<W(a), Num(n), W("months")>> : a \in {"past", "last"}, n \in LongMonthCounts}
    \cup {<<W(a), Num(n), W("days")>> : a \in {"past", "last"}, n \in LongDayCounts}
    \cup {<<W(a), Num(n), W("weeks")>> : a \in {"past", "last"}, n \in LongWeekCounts}
    \cup {<<W(a), W(u)>> : a \in Anchors, u \in Units}
    \cup {<<W(a), Num(n)>> : a \in {"past"}, n \in Years}
    \cup {<<Num(y)>> : y \in Years \cup {999}}
    \cup {<<Rng(a, b)>> : a \in Years, b \in Years}
    \cup {<<W(x), Num(y)>> : x \in Seasons, y \in Years}
    \cup {<<W("last"), W(x), Num(y)>> : x \in {"winter", "summer"}, y \in Years}
    \cup {<<W(x)>> : x \in Seasons \cup {"yesterday", "today", "data"}}
    \cup {<<>>}

\* the dates around the turn of the year 2024/2025
NearDates ==
    {Strftime([day |-> n, tod |-> 0], TRUE) :
        n \in (Ordinal(2024, 12, 25))..(Ordinal(2025, 1, 2))}

ExplicitDates ==
    NearDates
    \cup {DateStr("ymd", 1939, 1, 1), DateStr("ymd", 1939, 12, 31),
          DateStr("ymd", 1940, 1, 1), DateStr("ymd", 1940, 12, 31),
          DateStr("ymd", 2023, 2, 29), DateStr("ymd", 2024, 2, 29),
          DateStr("loose", 2024, 1, 5),
          DateStr("text", 0, 0, 0), DateStr("empty", 0, 0, 0)}

OptDates == {None} \cup {Some(d) : d \in ExplicitDates}

\* what the geocoder, the archive and the C library do during one call
Envs ==
    {[geo |-> "found", provider |-> "ok", pad |-> FALSE],
     [geo |-> "found", provider |-> "ok", pad |-> TRUE],
     [geo |-> "found", provider |-> "error", pad |-> FALSE],
     [geo |-> "error", provider |-> "ok", pad |-> FALSE]}

InitHist ==
    /\ now \in StartClocks
    /\ ticks = 0
    /\ call = Idle
    /\ locals = NoLocals
    /\ sent = <<>>
    /\ result = NoResult
    /\ ServerAtStart

\* between calls time passes: datetime.now() moves on by half a day
Tick ==
    /\ call = Idle
    /\ ticks < MaxTicks
    /\ ticks' = ticks + 1
    /\ now' = IF now.tod = 0 THEN [now EXCEPT !.tod = 1]
              ELSE [day |-> now.day + 1, tod |-> 0]
    /\ UNCHANGED <<call, locals, sent, result>>
    /\ UNCHANGED server

\* a tool is called when no call is under way and returns out
Returns(c, out) ==
    /\ call = Idle
    /\ call' = c
    /\ locals' = out.locals
    /\ sent' = out.sent
    /\ result' = out.result
    /\ UNCHANGED <<now, ticks>>
    /\ UNCHANGED server

HistCall(time_period, start_date, end_date, env) ==
    Returns([fn |-> "get_historical_weather", time_period |-> time_period,
             start_date |-> start_date, end_date |-> end_date, env |-> env],
            HistoricalWeather(time_period, start_date, end_date, env, now))

get_historical_weather ==
    \/ \E env \in Envs, tp \in TimePeriods : HistCall(Some(tp), None, None, env)
    \/ \E env \in {e \in Envs : ~e.pad}, sd \in OptDates, ed \in OptDates :
           HistCall(None, sd, ed, env)
    \/ \E env \in {e \in Envs : ~e.pad}, sd \in OptDates :
           \E ed \in {None, sd} :
               HistCall(Some(<<W("past"), Num(1), W("years")>>), sd, ed, env)

\* the caller takes the returned value
Done ==
    /\ call # Idle
    /\ call' = Idle
    /\ locals' = NoLocals
    /\ sent' = <<>>
    /\ result' = NoResult
    /\ UNCHANGED <<now, ticks>>
    /\ UNCHANGED server

NextHist == Tick \/ get_historical_weather \/ Done

SpecHist == InitHist /\ [][NextHist]_vars

(***************************************************************************)
(* Properties of get_historical_weather.                                   *)
(***************************************************************************)
\* a call of get_historical_weather whose city the geocoder found
HistFound == call.fn = "get_historical_weather" /\ call.env.geo = "found"

\* ... with a time period and no explicit date
PeriodCall == HistFound /\ call.time_period # None /\ call.start_date = None
              /\ call.end_date = None

\* the text is "<past|last|previous> N <unit>" with the unit among units
IsSpan(text, units) ==
    /\ Len(text) = 3
    /\ text[1].k = "w" /\ Lower(text[1].s) \in {"past", "last", "previous"}
    /\ text[2].k = "n"
    /\ text[3].k = "w" /\ Lower(text[3].s) \in units

YearSpanCall == PeriodCall /\ IsSpan(The(call.time_period), {"year", "years"})

SpanCount == The(call.time_period)[2].a

\* the locals start_dt, end_dt are the days (y1, m1, d1) and day number e
ResolvedTo(y1, m1, d1, e) ==
    /\ locals.start_dt # None /\ locals.end_dt # None
    /\ YearOf(The(locals.start_dt).day) = y1
    /\ MonthOf(The(locals.start_dt).day) = m1
    /\ DayOf(The(locals.start_dt).day) = d1
    /\ The(locals.end_dt).day = e

\* C5 as stated: for every N >= 1, "past N years" resolves to start = January 1
\* of the year today.year - N and end = today - 5 days.
C5_EveryYearSpanResolves ==
    (YearSpanCall /\ SpanCount >= 1)
        => ResolvedTo(YearOf(now.day) - SpanCount, 1, 1, now.day - 5)

\* C5 amended: for every N with 1 <= N < today.year, "past N years" resolves to
\* start = January 1 of the year today.year - N and end = today - 5 days, and an
\* accepted request carries exactly these two dates; for N >= today.year no
\* range is produced and the call returns an error.
C5_YearSpanResolves ==
    /\ (YearSpanCall /\ SpanCount >= 1 /\ SpanCount < YearOf(now.day))
           => /\ ResolvedTo(YearOf(now.day) - SpanCount, 1, 1, now.day - 5)
              /\ sent # <<>> =>
                    /\ sent[1].start_date
                           = DateStr("ymd", YearOf(now.day) - SpanCount, 1, 1)
                    /\ Strptime(sent[1].end_date).day = now.day - 5
    /\ (YearSpanCall /\ SpanCount >= YearOf(now.day))
           => locals = NoLocals /\ result.status = "error" /\ sent = <<>>

\* C5 witness: "past 5 years" was resolved and the archive asked
C5_Witness ==
    /\ YearSpanCall /\ SpanCount = 5
    /\ result.status = "success"
    /\ ResolvedTo(YearOf(now.day) - 5, 1, 1, now.day - 5)

SingleYearCall == PeriodCall /\ IsSingleYear(The(call.time_period))

CalledYear == The(call.time_period)[1].a

\* C6 as stated: for every year Y with 1940 <= Y <= today.year the time period
\* Y gives the range Y-01-01 .. Y-12-31, a success and not an error.
C6_EveryYearSucceeds ==
    (SingleYearCall /\ CalledYear >= 1940 /\ CalledYear <= YearOf(now.day)
     /\ call.env.provider = "ok")
        => /\ result.status = "success"
           /\ result.period = <<DateStr("ymd", CalledYear, 1, 1),
                                DateStr("ymd", CalledYear, 12, 31)>>

\* C6 amended: for every year Y with 1940 <= Y <= today.year the time period Y
\* resolves to Y-01-01 .. Y-12-31; the range is accepted (a success when the
\* archive answers) exactly when Y-12-31 <= today - 5 days, and otherwise, as
\* always for Y = today.year, the call returns the too-recent error.
C6_SingleYearResolves ==
    (SingleYearCall /\ CalledYear >= 1940 /\ CalledYear <= YearOf(now.day))
        => /\ ResolvedTo(CalledYear, 1, 1, Ordinal(CalledYear, 12, 31))
           /\ IF Ordinal(CalledYear, 12, 31) <= now.day - 5
              THEN /\ Len(sent) = 1
                   /\ sent[1].start_date = DateStr("ymd", CalledYear, 1, 1)
                   /\ sent[1].end_date = DateStr("ymd", CalledYear, 12, 31)
                   /\ call.env.provider = "ok" =>
                          /\ result.status = "success"
                          /\ result.period = <<sent[1].start_date, sent[1].end_date>>
              ELSE result.error = "too_recent" /\ sent = <<>>
           /\ CalledYear = YearOf(now.day) => result.error = "too_recent"

\* C6 witness: last year's range was accepted in the first days of January
C6_Witness ==
    /\ SingleYearCall /\ CalledYear = YearOf(now.day) - 1
    /\ MonthOf(now.day) = 1
    /\ result.status = "success"

\* C7 as stated: every range sent to the archive has start_date <= end_date.
C7_SentRangeOrdered ==
    (call.fn = "get_historical_weather" /\ sent # <<>>)
        => Strptime(sent[1].start_date).day <= Strptime(sent[1].end_date).day

\* the date strings that reach the validation
WellFormed(d) == Strptime(d) # Raised

Resolved == locals.start_dt # None

UsedStart == IF Resolved THEN Strftime(The(locals.start_dt), call.env.pad)
             ELSE The(call.start_date)

UsedEnd == IF Resolved THEN Strftime(The(locals.end_dt), call.env.pad)
           ELSE The(call.end_date)

\* the call reached the validation with two well-formed dates
ValidatedCall ==
    /\ HistFound
    /\ Resolved \/ (~Falsy(call.start_date) /\ ~Falsy(call.end_date))
    /\ WellFormed(UsedStart) /\ WellFormed(UsedEnd)

ExplicitCall(y1, m1, d1, y2, m2, d2) ==
    /\ HistFound /\ call.time_period = None
    /\ call.start_date = Some(DateStr("ymd", y1, m1, d1))
    /\ call.end_date = Some(DateStr("ymd", y2, m2, d2))

\* C8: a well-formed range passes the validation exactly when end_date <= today
\* - 5 days and start_date.year >= 1940; then one request with exactly these
\* dates is sent; otherwise the too-recent or too-old error is returned and
\* nothing is sent.  1940-01-01..1940-12-31 passes, 1939-01-01..1939-12-31 is too old.
C8_ValidationWindow ==
    /\ ValidatedCall =>
          IF Strptime(UsedEnd).day <= now.day - 5 /\ UsedStart.y >= 1940
          THEN /\ Len(sent) = 1
               /\ sent[1].start_date = UsedStart
               /\ sent[1].end_date = UsedEnd
               /\ result.error \in {"", "provider"}
               /\ result.status = "success" => result.period = <<UsedStart, UsedEnd>>
          ELSE /\ sent = <<>>
               /\ result.status = "error"
               /\ result.error \in {"too_recent", "too_old"}
    /\ ExplicitCall(1940, 1, 1, 1940, 12, 31) => Len(sent) = 1
    /\ ExplicitCall(1939, 1, 1, 1939, 12, 31) => result.error = "too_old" /\ sent = <<>>

\* C8 witness: an explicit range ending exactly at today - 5 days was accepted
C8_Witness ==
    /\ ValidatedCall /\ ~Resolved
    /\ Strptime(UsedEnd).day = now.day - 5
    /\ result.status = "success"

\* C9 as stated: "past N days" with N < 5 is rejected with the too-recent error.
C9_ShortDaySpanRejected ==
    (PeriodCall /\ IsSpan(The(call.time_period), {"day", "days"}) /\ SpanCount < 5)
        => result.error = "too_recent"

\* C10 as stated: "last week" is resolved to a date range, not a parse error.
C10_LastWeekResolves ==
    (PeriodCall /\ The(call.time_period) = <<W("last"), W("week")>>)
        => Resolved /\ result.error \notin {"no_number", "unable_to_parse"}

\* the lowercased text of the time period is "<word> Y" with a four-digit Y
SeasonCall(word) ==
    /\ PeriodCall /\ Len(The(call.time_period)) = 2
    /\ The(call.time_period)[1].k = "w" /\ Lower(The(call.time_period)[1].s) = word
    /\ The(call.time_period)[2].k = "n" /\ IsFourDigit(The(call.time_period)[2].a)

\* the lowercased text is "<past|last|previous> <word> Y" with a four-digit Y
AnchoredSeasonCall(word) ==
    /\ PeriodCall /\ Len(The(call.time_period)) = 3
    /\ The(call.time_period)[1].k = "w"
    /\ Lower(The(call.time_period)[1].s) \in {"past", "last", "previous"}
    /\ The(call.time_period)[2].k = "w" /\ Lower(The(call.time_period)[2].s) = word
    /\ The(call.time_period)[3].k = "n" /\ IsFourDigit(The(call.time_period)[3].a)

\* the year that ends the text
SeasonYear == The(call.time_period)[Len(The(call.time_period))].a

\* the text matches one of the four rules: relative span, single year, year
\* range, season with a year
MatchesSomeRule ==
    \/ IsSpan(The(call.time_period),
              {"year", "years", "month", "months", "day", "days", "week", "weeks"})
    \/ IsSingleYear(The(call.time_period))
    \/ IsYearRange(The(call.time_period))
    \/ \E word \in {"winter", "summer", "spring", "autumn", "fall"} :
           SeasonCall(word) \/ AnchoredSeasonCall(word)

\* C19 as stated: the rules are tried in the order relative span, single year,
\* year range, season with a year; a text that holds past, last or previous
\* without the form "(past|last|previous) N unit", such as "last winter 2022",
\* is resolved by the later rules, and the error "unable to parse" is returned
\* only when no rule matches.
C19_FirstMatchingRuleWins ==
    /\ AnchoredSeasonCall("winter")
           => ResolvedTo(SeasonYear, 12, 1, Ordinal(SeasonYear + 1, 2, 28))
    /\ AnchoredSeasonCall("summer")
           => ResolvedTo(SeasonYear, 6, 1, Ordinal(SeasonYear, 8, 31))
    /\ (PeriodCall /\ result.error = "unable_to_parse") => ~MatchesSomeRule

\* C20: "winter Y" resolves to Y-12-01 .. (Y+1)-02-28, also when Y+1 is a leap
\* year, "summer Y" to Y-06-01 .. Y-08-31, "spring Y" to Y-03-01 .. Y-05-31,
\* "autumn Y" and "fall Y" to Y-09-01 .. Y-11-30; a season word without a year
\* gives an error, no range and no request.
C20_SeasonWindows ==
    /\ SeasonCall("winter")
           => ResolvedTo(SeasonYear, 12, 1, Ordinal(SeasonYear + 1, 2, 28))
    /\ SeasonCall("summer") => ResolvedTo(SeasonYear, 6, 1, Ordinal(SeasonYear, 8, 31))
    /\ SeasonCall("spring") => ResolvedTo(SeasonYear, 3, 1, Ordinal(SeasonYear, 5, 31))
    /\ (SeasonCall("autumn") \/ SeasonCall("fall"))
           => ResolvedTo(SeasonYear, 9, 1, Ordinal(SeasonYear, 11, 30))
    /\ \A word \in {"winter", "summer", "spring", "autumn", "fall"} :
           (PeriodCall /\ Len(The(call.time_period)) = 1
            /\ The(call.time_period)[1].k = "w"
            /\ Lower(The(call.time_period)[1].s) = word)
               => /\ result.status = "error" /\ result.error = "season_needs_year"
                  /\ locals = NoLocals /\ sent = <<>>

\* C20 witness: "winter 2023" was resolved to end on 2024-02-28 and accepted
C20_Witness ==
    /\ SeasonCall("winter") /\ SeasonYear = 2023
    /\ ResolvedTo(2023, 12, 1, Ordinal(2024, 2, 28))
    /\ result.status = "success"

MonthSpanCall == PeriodCall /\ IsSpan(The(call.time_period), {"month", "months"})

\* the number 12 * year + month of the month N months before the month of today
MonthIndex == 12 * YearOf(now.day) + MonthOf(now.day) - SpanCount

\* C21 as stated: for every N >= 1, "past/last N months" resolves to start =
\* day 1 of the month N months before the month of today and end = today - 5
\* days.
C21_EveryMonthSpanResolves ==
    (MonthSpanCall /\ SpanCount >= 1)
        => ResolvedTo((MonthIndex - 1) \div 12, ((MonthIndex - 1) % 12) + 1, 1,
                      now.day - 5)

\* C21 amended: for every N >= 1 whose month N months before the month of
\* today is not before January of the year 1, "past/last N months" resolves to
\* start = day 1 of that month (12 * start.year + start.month = 12 *
\* today.year + today.month - N) and end = today - 5 days; for a larger N no
\* range is produced and the call returns an error.
C21_MonthSpanResolves ==
    /\ (MonthSpanCall /\ SpanCount >= 1 /\ MonthIndex >= 13)
           => /\ ResolvedTo((MonthIndex - 1) \div 12, ((MonthIndex - 1) % 12) + 1, 1,
                            now.day - 5)
              /\ 12 * YearOf(The(locals.start_dt).day) + MonthOf(The(locals.start_dt).day)
                     = MonthIndex
    /\ (MonthSpanCall /\ MonthIndex < 13)
           => locals = NoLocals /\ result.status = "error" /\ sent = <<>>

\* C21 witness: "past 13 months" was resolved across a year boundary and the
\* archive asked
C21_Witness ==
    /\ MonthSpanCall /\ SpanCount = 13
    /\ result.status = "success"
    /\ YearOf(The(locals.start_dt).day) < YearOf(now.day) - 1
           \/ MonthOf(The(locals.start_dt).day) < MonthOf(now.day)
    /\ The(locals.end_dt).day = now.day - 5

DaySpanCall == PeriodCall /\ IsSpan(The(call.time_period), {"day", "days"})

WeekSpanCall == PeriodCall /\ IsSpan(The(call.time_period), {"week", "weeks"})

\* the locals start_dt, end_dt are the days today - back and today - 5
WindowBack(back) ==
    /\ locals.start_dt # None /\ locals.end_dt # None
    /\ The(locals.start_dt).day = now.day - back
    /\ The(locals.end_dt).day = now.day - 5

\* C22 as stated: for every N, "past/last N days" resolves to start = today -
\* (N + 5) days, end = today - 5 days, and "past/last N weeks" to start = today
\* - (7 * N + 5) days, end = today - 5 days.
C22_EveryDaySpanResolves ==
    /\ DaySpanCall => WindowBack(SpanCount + 5)
    /\ WeekSpanCall => WindowBack(7 * SpanCount + 5)

\* today - back days is a date of the calendar
Reachable(back) == now.day - back >= 1

\* C22 amended: for every N whose start date is not before 0001-01-01, "past/
\* last N days" resolves to start = today - (N + 5) days and "past/last N
\* weeks" to start = today - (7 * N + 5) days, both with end = today - 5 days,
\* so the window is N (7 * N) days long and ends at the embargo boundary; for a
\* larger N no range is produced and the call returns an error.
C22_DaySpanResolves ==
    /\ (DaySpanCall /\ Reachable(SpanCount + 5))
           => /\ WindowBack(SpanCount + 5)
              /\ The(locals.end_dt).day - The(locals.start_dt).day = SpanCount
    /\ (WeekSpanCall /\ Reachable(7 * SpanCount + 5))
           => /\ WindowBack(7 * SpanCount + 5)
              /\ The(locals.end_dt).day - The(locals.start_dt).day = 7 * SpanCount
    /\ (DaySpanCall /\ ~Reachable(SpanCount + 5))
           => locals = NoLocals /\ result.status = "error" /\ sent = <<>>
    /\ (WeekSpanCall /\ ~Reachable(7 * SpanCount + 5))
           => locals = NoLocals /\ result.status = "error" /\ sent = <<>>

\* C22 witness: "past 3 days" was resolved to [today - 8, today - 5] and the
\* archive asked
C22_Witness ==
    /\ DaySpanCall /\ SpanCount = 3
    /\ WindowBack(8)
    /\ result.status = "success"

(***************************************************************************)
(* Earthquake queries.  Besides words and digit runs a query holds the     *)
(* tokens "5+" (Plus), "5.5" (Dec), "5.5+" (DecPlus) and "300km" (Km).     *)
(***************************************************************************)
Plus(a) == [k |-> "p", s |-> "", a |-> a, b |-> 0]

Dec(a, f) == [k |-> "d", s |-> "", a |-> a, b |-> f]

DecPlus(a, f) == [k |-> "dp", s |-> "", a |-> a, b |-> f]

Km(a) == [k |-> "km", s |-> "", a |-> a, b |-> 0]

\* query.lower()
LowerText(query) ==
    [i \in 1..Len(query) |->
        IF query[i].k = "w" THEN W(Lower(query[i].s)) ELSE query[i]]

Ends(t, suf) == t.k = "w" /\ t.s \in WordsEnding(suf)

Starts(t, pre) == t.k = "w" /\ t.s \in WordsStarting(pre)

Has(text, sub) == \E i \in 1..Len(text) : text[i].k = "w" /\ text[i].s \in WordsContaining(sub)

Least(S) == CHOOSE i \in S : \A j \in S : i <= j

\* the token begins one of last, past, during, within, over
Terminates(t) ==
    \E pre \in {"last", "past", "during", "within", "over"} : Starts(t, pre)

\* the words q[i+1..j] are letters only and a terminating word follows them
SpanEndsAt(q, i, j) ==
    /\ j >= i + 1 /\ j + 1 <= Len(q)
    /\ \A n \in (i + 1)..j : q[n].k = "w"
    /\ Terminates(q[j + 1])

\* the words q[i+1..j]
Words(q, i, j) == [n \in 1..(j - i) |-> q[i + n].s]

\* the shortest capture that starts after q[i]
ShortestSpan(q, i) == Words(q, i, Least({n \in 1..Len(q) : SpanEndsAt(q, i, n)}))

\* the capture of the leftmost match, or <<>> when nothing matches
LeftmostSpan(q, starts) == IF starts = {} THEN <<>> ELSE ShortestSpan(q, Least(starts))

\* re.search of  prep\s+([a-zA-Z\s]+?)(?:\s+(?:last|past|during|within|over))
PrepositionSpan(q, prep) ==
    LeftmostSpan(q, {i \in 1..Len(q) :
                        Ends(q[i], prep) /\ \E j \in 1..Len(q) : SpanEndsAt(q, i, j)})

\* the token at offset from the leftmost match, if there is a match
Leftmost(q, at, offset) == IF at = {} THEN None ELSE Some(q[Least(at) + offset])

\* the one word captured after the subject and the preposition
WordOf(t) == IF t = None THEN <<>> ELSE <<The(t).s>>

\* re.search of
\* (?:earthquakes?|seismic|activity)\s+(?:in|near|around)\s+([a-zA-Z\s]+?)(?:\s|$)
SubjectSpan(q) ==
    WordOf(Leftmost(q, {i \in 1..Len(q) :
                           /\ i + 2 <= Len(q)
                           /\ \E suf \in {"earthquake", "earthquakes", "seismic",
                                          "activity"} : Ends(q[i], suf)
                           /\ q[i + 1].k = "w" /\ q[i + 1].s \in {"in", "near", "around"}
                           /\ q[i + 2].k = "w"},
                    2))

RECURSIVE Strip(_)
\* str.strip() of the words joined by blanks: "" are the places of removed words
Strip(ws) ==
    IF ws = <<>> THEN ws
    ELSE IF Head(ws) = "" THEN Strip(Tail(ws))
    ELSE IF ws[Len(ws)] = "" THEN Strip(SubSeq(ws, 1, Len(ws) - 1))
    ELSE ws

\* re.sub(r'\b(the|area|region)\b', '', location).strip()
CleanLocation(ws) ==
    Strip([n \in 1..Len(ws) |-> IF ws[n] \in {"the", "area", "region"} THEN "" ELSE ws[n]])

\* for pattern in location_patterns: the first pattern that matches decides
FirstSpan(in_span, near_span, around_span, subject_span) ==
    IF in_span # <<>> THEN in_span
    ELSE IF near_span # <<>> THEN near_span
    ELSE IF around_span # <<>> THEN around_span
    ELSE subject_span

\* return location if location else None
NonEmpty(location) == IF location = <<>> THEN None ELSE Some(location)

\* what is returned for the capture found (<<>> when no pattern matched)
LocationOf(found) == IF found = <<>> THEN None ELSE NonEmpty(CleanLocation(found))

LocationIn(q) ==
    LocationOf(FirstSpan(PrepositionSpan(q, "in"), PrepositionSpan(q, "near"),
                         PrepositionSpan(q, "around"), SubjectSpan(q)))

\* _extract_location_from_query
ExtractLocation(query) == LocationIn(LowerText(query))

\* the digit run a token ends with, if any
TrailingDigits(t) ==
    IF t.k = "n" THEN Some(t.a) ELSE IF t.k = "d" THEN Some(t.b) ELSE None

\* the number \d+(?:\.\d+)? a token begins with, in tenths
LeadingNumber(t) == 10 * t.a + (IF t.k \in {"d", "dp"} THEN t.b ELSE 0)

\* int(match.group(1)) where group 1 is the digit run that ends the token, or
\* the digits before km
GroupInt(t) ==
    IF t = None THEN None
    ELSE IF The(t).k = "km" THEN Some(The(t).a)
    ELSE TrailingDigits(The(t))

\* float(match.group(1)) where group 1 is the number that begins the token
GroupFloat(t) == IF t = None THEN None ELSE Some(LeadingNumber(The(t)))

\* re.search of  anchor\s+(\d+)\s+unit : group 1 of the leftmost match
AnchoredNumber(q, anchor, unit) ==
    GroupInt(Leftmost(q, {i \in 1..Len(q) :
                             /\ i + 2 <= Len(q)
                             /\ Ends(q[i], anchor) /\ q[i + 1].k = "n"
                             /\ Starts(q[i + 2], unit)},
                      1))

\* re.search of  (\d+)\s+unit
BareNumber(q, unit) ==
    GroupInt(Leftmost(q, {i \in 1..Len(q) :
                             /\ i + 1 <= Len(q)
                             /\ q[i].k \in {"n", "d"} /\ Starts(q[i + 1], unit)},
                      0))

\* re.search of  anchor\s+unit
AnchoredUnit(q, anchor, unit) ==
    \E i \in 1..Len(q) : i + 1 <= Len(q) /\ Ends(q[i], anchor) /\ Starts(q[i + 1], unit)

\* the value a rule gives when its pattern matches
When(matches, value) == IF matches THEN Some(value) ELSE None

\* int(match.group(1)) * 7
Weeks(n) == IF n = None THEN None ELSE Some(The(n) * 7)

\* for pattern in patterns: the first rule that matches decides
FirstMatch(rules) ==
    LET matching == {i \in 1..Len(rules) : rules[i] # None}
    IN IF matching = {} THEN None ELSE rules[Least(matching)]

\* match.group(1) on a pattern without a group: IndexError
NoSuchGroup == -1

Extracted(v) == [raised |-> FALSE, value |-> v]

\* the value returned, or the exception that leaves the function
Returned(v) ==
    IF v = Some(NoSuchGroup) THEN [raised |-> TRUE, value |-> None] ELSE Extracted(v)

\* the rules of time_patterns in their order
DaysIn(q) ==
    FirstMatch(<<AnchoredNumber(q, "last", "day"),
                 AnchoredNumber(q, "past", "day"),
                 BareNumber(q, "day"),
                 When(AnchoredUnit(q, "last", "week"), 7),
                 When(AnchoredUnit(q, "past", "week"), 7),
                 When(AnchoredUnit(q, "this", "week"), 7),
                 When(AnchoredUnit(q, "last", "month"), 30),
                 When(AnchoredUnit(q, "past", "month"), 30),
                 When(AnchoredUnit(q, "this", "month"), 30),
                 Weeks(AnchoredNumber(q, "last", "week")),
                 Weeks(AnchoredNumber(q, "past", "week")),
                 Weeks(BareNumber(q, "week")),
                 When(Has(q, "today"), NoSuchGroup),
                 When(Has(q, "yesterday"), 2),
                 When(Has(q, "recent"), 14)>>)

\* _extract_time_period_from_query
ExtractDays(query) == Returned(DaysIn(LowerText(query)))

\* re.search of  word\s+(\d+(?:\.\d+)?)\+
WordThenPlus(q, word) ==
    GroupFloat(Leftmost(q, {i \in 1..Len(q) :
                               /\ i + 1 <= Len(q)
                               /\ Ends(q[i], word) /\ q[i + 1].k \in {"p", "dp"}},
                        1))

\* the token begins with above or higher
Upward(t) == Starts(t, "above") \/ Starts(t, "higher")

\* re.search of  magnitude\s+(\d+(?:\.\d+)?)\s+(?:or\s+)?(?:above|higher)
MagnitudeOrAbove(q) ==
    GroupFloat(Leftmost(q, {i \in 1..Len(q) :
                               /\ i + 2 <= Len(q)
                               /\ Ends(q[i], "magnitude") /\ q[i + 1].k \in {"n", "d"}
                               /\ \/ Upward(q[i + 2])
                                  \/ /\ i + 3 <= Len(q)
                                     /\ q[i + 2] = W("or") /\ Upward(q[i + 3])},
                        1))

\* re.search of  (\d+(?:\.\d+)?)\+\s+magnitude
PlusThenMagnitude(q) ==
    GroupFloat(Leftmost(q, {i \in 1..Len(q) :
                               /\ i + 1 <= Len(q)
                               /\ q[i].k \in {"p", "dp"} /\ Starts(q[i + 1], "magnitude")},
                        0))

\* re.search of  first\s+second\s+(\d+(?:\.\d+)?)
TwoWordsThenNumber(q, first, second) ==
    GroupFloat(Leftmost(q, {i \in 1..Len(q) :
                               /\ i + 2 <= Len(q)
                               /\ Ends(q[i], first) /\ q[i + 1] = W(second)
                               /\ q[i + 2].k # "w"},
                        2))

\* the qualitative words tried before the numeric patterns
MagnitudeIn_WordsFirst(q) ==
    FirstMatch(<<When(Has(q, "significant"), 45),
                 When(Has(q, "major"), 60),
                 When(Has(q, "minor"), 20),
                 WordThenPlus(q, "magnitude"),
                 MagnitudeOrAbove(q),
                 WordThenPlus(q, "mag"),
                 PlusThenMagnitude(q),
                 TwoWordsThenNumber(q, "above", "magnitude"),
                 TwoWordsThenNumber(q, "stronger", "than")>>)

\* the rules of magnitude_patterns in their order, in tenths
MagnitudeIn(q) ==
    FirstMatch(<<WordThenPlus(q, "magnitude"),
                 MagnitudeOrAbove(q),
                 WordThenPlus(q, "mag"),
                 PlusThenMagnitude(q),
                 TwoWordsThenNumber(q, "above", "magnitude"),
                 TwoWordsThenNumber(q, "stronger", "than"),
                 When(Has(q, "significant"), 45),
                 When(Has(q, "major"), 60),
                 When(Has(q, "minor"), 20)>>)

\* _extract_magnitude_from_query
ExtractMagnitude(query) == MagnitudeIn(LowerText(query))

\* re.search of  within\s+(\d+)\s*km
WithinKm(q) ==
    GroupInt(Leftmost(q, {i \in 1..Len(q) :
                             /\ i + 1 <= Len(q) /\ Ends(q[i], "within")
                             /\ \/ q[i + 1].k = "km"
                                \/ /\ i + 2 <= Len(q)
                                   /\ q[i + 1].k = "n" /\ Starts(q[i + 2], "km")},
                      1))

\* re.search of  (\d+)\s*km\s+radius
KmRadius(q) ==
    GroupInt(Leftmost(q, {i \in 1..Len(q) :
                             \/ /\ i + 1 <= Len(q)
                                /\ q[i].k = "km" /\ Starts(q[i + 1], "radius")
                             \/ /\ i + 2 <= Len(q)
                                /\ q[i].k \in {"n", "d"}
                                /\ q[i + 1] = W("km") /\ Starts(q[i + 2], "radius")},
                      0))

\* round(value * 1.60934)
MilesToKm_Rounded(value) ==
    IF value = None THEN None ELSE Some((The(value) * 160934 + 50000) \div 100000)

\* int(value * 1.60934)
MilesToKm(value) == IF value = None THEN None ELSE Some((The(value) * 160934) \div 100000)

\* the rules of radius_patterns in their order
RadiusIn(q) ==
    FirstMatch(<<WithinKm(q),
                 KmRadius(q),
                 BareNumber(q, "kilometer"),
                 MilesToKm(AnchoredNumber(q, "within", "mile"))>>)

\* _extract_radius_from_query
ExtractRadius(query) == RadiusIn(LowerText(query))

(***************************************************************************)
(* The earthquake tools.  Magnitudes are in tenths, latitudes, longitudes  *)
(* and paddings in tenths of a degree.  A location is a sequence of words. *)
(***************************************************************************)
\* days = days or 30
DefaultDays == 30

\* magnitude_threshold = magnitude_threshold or 2.5
DefaultMagnitude == 25

\* radius_km = radius_km or 500
DefaultRadius == 500

\* limit=100 of the two natural-language tools
QueryLimit == 100

\* not x for an optional string
NoText(o) == o = None \/ The(o) = <<>>

\* a test for None alone
NoNumber_OnlyNone(o) == o = None

\* not x for an optional number
NoNumber(o) == o = None \/ The(o) = 0

\* x or default
OrDefault(o, default) == IF NoNumber(o) THEN Some(default) ELSE o

NotFound == [status |-> "error"]

Place(latitude, longitude, feature_code) ==
    [status |-> "success", latitude |-> latitude, longitude |-> longitude,
     feature_code |-> feature_code]

QuakeResult(status, error, search_type, location) ==
    [status |-> status, error |-> error, search_type |-> search_type,
     location |-> location, context |-> None]

QuakeOutcome(res, requests) == [result |-> res, sent |-> requests]

QuakeFailure(error, requests) ==
    QuakeOutcome(QuakeResult("error", error, "", None), requests)

\* the parameters of one request to the USGS event query
Params(start_time, end_time, min_magnitude, limit, pad) ==
    [api |-> "usgs",
     starttime |-> Strftime(start_time, pad), endtime |-> Strftime(end_time, pad),
     minmagnitude |-> min_magnitude, limit |-> limit,
     circle |-> None, box |-> None]

Circle(latitude, longitude, maxradiuskm) ==
    [latitude |-> latitude, longitude |-> longitude, maxradiuskm |-> maxradiuskm]

\* the "location" entry of a result
Found(coords, radius_km) ==
    Some([latitude |-> coords.latitude, longitude |-> coords.longitude,
          search_radius_km |-> radius_km])

\* the request is made and the provider answers: raise_for_status and on
Answer(provider, request, search_type, location) ==
    IF provider # "ok" THEN QuakeFailure("provider", <<request>>)
    ELSE QuakeOutcome(QuakeResult("success", "", search_type, location), <<request>>)

\* get_earthquake_data from "Handle location-based search" on
LocatedData(params, city, radius_km, latitude, longitude, coords, provider) ==
    IF ~NoText(city)
    THEN IF coords.status = "error" THEN QuakeFailure("geocoding", <<>>)
         ELSE Answer(provider,
                     IF ~NoNumber(radius_km)
                     THEN [params EXCEPT !.circle =
                              Some(Circle(coords.latitude, coords.longitude,
                                          The(radius_km)))]
                     ELSE params,
                     "", Found(coords, radius_km))
    ELSE Answer(provider,
                IF latitude # None /\ longitude # None /\ radius_km # None
                THEN [params EXCEPT !.circle =
                         Some(Circle(The(latitude), The(longitude), The(radius_km)))]
                ELSE params,
                "", None)

\* get_earthquake_data once start_time is computed
DataSince(start_time, end_time, min_magnitude, limit, city, radius_km, latitude, longitude, env) ==
    IF start_time = Raised THEN QuakeFailure("exception", <<>>)
    ELSE LocatedData(Params(start_time, end_time, min_magnitude, limit, env.pad),
                     city, radius_km, latitude, longitude, env.geo, env.provider)

\* get_earthquake_data
EarthquakeData(min_magnitude, days_back, limit, city, radius_km, latitude, longitude, env, today) ==
    DataSince(MinusDays(today, days_back), today, min_magnitude, limit, city,
              radius_km, latitude, longitude, env)

Boundaries(lat, lon, padding) ==
    [min_lat |-> lat - padding, max_lat |-> lat + padding,
     min_lon |-> lon - padding, max_lon |-> lon + padding]

\* the padding of the caller for every feature code
Padding_CallerAlways(feature_code, padding_degrees) == padding_degrees

\* the padding get_dynamic_boundaries ends with for a feature code
Padding(feature_code, padding_degrees) ==
    IF feature_code \in {"PCLI", "PCL"} THEN 50
    ELSE IF feature_code \in {"ADM1"} THEN 20
    ELSE IF feature_code \in {"PPL", "PPLA", "PPLC"} THEN 5
    ELSE padding_degrees

\* get_dynamic_boundaries: found is the answer of the geocoder
DynamicBoundaries(found, padding_degrees) ==
    IF found.status = "error" THEN [status |-> "error"]
    ELSE [status |-> "success",
          boundaries |-> Boundaries(found.latitude, found.longitude,
                                    Padding(found.feature_code, padding_degrees))]

\* a box whose longitudes are put in ascending order
Box_Normalised(boundaries) ==
    [minlatitude |-> boundaries.min_lat, maxlatitude |-> boundaries.max_lat,
     minlongitude |-> IF boundaries.min_lon <= boundaries.max_lon
                      THEN boundaries.min_lon ELSE boundaries.max_lon,
     maxlongitude |-> IF boundaries.min_lon <= boundaries.max_lon
                      THEN boundaries.max_lon ELSE boundaries.min_lon]

Box(boundaries) ==
    [minlatitude |-> boundaries.min_lat, maxlatitude |-> boundaries.max_lat,
     minlongitude |-> boundaries.min_lon, maxlongitude |-> boundaries.max_lon]

\* the rectangular search of get_earthquakes_by_any_location
Rectangular(boundary_info, params, loc, radius_km, provider) ==
    IF boundary_info.status = "error" THEN QuakeFailure("geocoding", <<>>)
    ELSE Answer(provider, [params EXCEPT !.box = Some(Box(boundary_info.boundaries))],
                "rectangular", Found(loc, radius_km))

\* get_earthquakes_by_any_location from "Use either radius or rectangular search"
AreaSearch(params, loc, radius_km, env) ==
    IF ~NoNumber(radius_km)
    THEN Answer(env.provider,
                [params EXCEPT !.circle =
                    Some(Circle(loc.latitude, loc.longitude, The(radius_km)))],
                "circular", Found(loc, radius_km))
    ELSE Rectangular(DynamicBoundaries(env.geo2, 10), params, loc, radius_km,
                     env.provider)

\* get_earthquakes_by_any_location once the location is looked up
LocationSince(loc, start_time, end_time, min_magnitude, radius_km, limit, env) ==
    IF loc.status = "error" THEN QuakeFailure("geocoding", <<>>)
    ELSE IF start_time = Raised THEN QuakeFailure("exception", <<>>)
    ELSE AreaSearch(Params(start_time, end_time, min_magnitude, limit, env.pad),
                    loc, radius_km, env)

\* get_earthquakes_by_any_location
EarthquakesByAnyLocation(location, days_back, min_magnitude, radius_km, limit, env, today) ==
    LocationSince(env.geo, MinusDays(today, days_back), today, min_magnitude,
                  radius_km, limit, env)

QuakeLocals(location, days, magnitude, radius_km) ==
    [location |-> location, days |-> days, magnitude |-> magnitude,
     radius_km |-> radius_km]

\* the query_context entry
QueryContext(query, location, days, magnitude, radius_km) ==
    [original_query |-> query, location |-> location, days |-> days,
     magnitude |-> magnitude, radius_km |-> radius_km]

\* the result with the parsed parameters added when it is a success
WithContext(out, lcl, context) ==
    [result |-> IF out.result.status = "success"
                THEN [out.result EXCEPT !.context = Some(context)]
                ELSE out.result,
     locals |-> lcl, sent |-> out.sent]

\* the exception leaves the tool
Crashed_Uncaught ==
    [result |-> QuakeResult("raised", "exception", "", None),
     locals |-> QuakeLocals(None, None, None, None), sent |-> <<>>]

\* an exception raised while the query is parsed reaches the outer handler
Crashed ==
    [result |-> QuakeResult("error", "exception", "", None),
     locals |-> QuakeLocals(None, None, None, None), sent |-> <<>>]

\* smart_earthquake_search from "Use existing function with parsed parameters"
SearchWith(query, location, days, magnitude_threshold, radius_km, env, today) ==
    WithContext(IF ~NoText(location)
                THEN EarthquakeData(The(magnitude_threshold), The(days), QueryLimit,
                                    location, radius_km, None, None, env, today)
                ELSE EarthquakeData(The(magnitude_threshold), The(days), QueryLimit,
                                    None, None, None, None, env, today),
                QuakeLocals(location, days, magnitude_threshold, radius_km),
                QueryContext(query, location, days, magnitude_threshold, radius_km))

\* smart_earthquake_search from "Set defaults"
SearchParsed(query, location, found_days, magnitude_threshold, radius_km, env, today) ==
    IF found_days.raised THEN Crashed
    ELSE SearchWith(query, location,
                    OrDefault(found_days.value, DefaultDays),
                    OrDefault(magnitude_threshold, DefaultMagnitude),
                    OrDefault(radius_km, DefaultRadius),
                    env, today)

\* smart_earthquake_search
SmartEarthquakeSearch(query, location, days, magnitude_threshold, radius_km, env, today) ==
    SearchParsed(query,
                 IF NoText(location) THEN ExtractLocation(query) ELSE location,
                 IF NoNumber(days) THEN ExtractDays(query) ELSE Extracted(days),
                 IF NoNumber(magnitude_threshold) THEN ExtractMagnitude(query)
                 ELSE magnitude_threshold,
                 IF NoNumber(radius_km) THEN ExtractRadius(query) ELSE radius_km,
                 env, today)

\* the query_analysis entry
Analysis(query, location, days, magnitude, radius_km) ==
    [original_query |-> query, location |-> location, days |-> days, magnitude |-> magnitude,
     radius_km |-> radius_km,
     search_strategy |-> IF ~NoText(location) THEN "location-based" ELSE "global"]

\* smart_location_earthquake_query from "if not location"
LocationQueryWith(query, location, days, magnitude, radius_km, env, today) ==
    WithContext(IF NoText(location)
                THEN EarthquakeData(The(magnitude), The(days), QueryLimit,
                                    None, None, None, None, env, today)
                ELSE EarthquakesByAnyLocation(The(location), The(days), The(magnitude),
                                              radius_km, QueryLimit, env, today),
                QuakeLocals(location, days, magnitude, radius_km),
                Analysis(query, location, days, magnitude, radius_km))

\* smart_location_earthquake_query from "Set intelligent defaults"
LocationQueryParsed(query, location, found_days, found_magnitude, radius_km, env, today) ==
    IF found_days.raised THEN Crashed
    ELSE LocationQueryWith(query, location,
                           OrDefault(found_days.value, DefaultDays),
                           OrDefault(found_magnitude, DefaultMagnitude),
                           radius_km, env, today)

\* smart_location_earthquake_query
SmartLocationEarthquakeQuery(query, auto_detect_params, env, today) ==
    LocationQueryParsed(
        query,
        IF auto_detect_params THEN ExtractLocation(query) ELSE None,
        IF auto_detect_params THEN ExtractDays(query) ELSE Extracted(None),
        IF auto_detect_params THEN ExtractMagnitude(query) ELSE None,
        IF auto_detect_params THEN ExtractRadius(query) ELSE None,
        env, today)

(***************************************************************************)
(* The calls of the two natural-language earthquake tools.                 *)
(***************************************************************************)
\* largest M tried in "magnitude M+"
MaxMagnitude == 6

\* largest N tried in "last N days"
MaxDays == 3

MagnitudePhrases ==
    {<<>>, <<W("significant")>>, <<W("major")>>, <<W("minor")>>, <<W("recent")>>}
    \cup {<<W("magnitude"), Plus(m)>> : m \in 0..MaxMagnitude}
    \cup {<<W("Magnitude"), Plus(5)>>, <<W("mag"), Plus(5)>>,
          <<W("magnitude"), DecPlus(5, 5)>>,
          <<Plus(6), W("magnitude")>>, <<DecPlus(4, 5), W("magnitude")>>}

Subjects == {<<W("earthquakes")>>, <<W("seismic"), W("activity")>>}

PlacePhrases ==
    {<<>>,
     <<W("in"), W("Japan")>>, <<W("near"), W("Tokyo")>>, <<W("around"), W("Osaka")>>,
     <<W("in"), W("New"), W("Zealand")>>, <<W("in"), W("california")>>,
     <<W("near"), W("berlin")>>,
     <<W("in"), W("the"), W("Bay"), W("area")>>,
     <<W("near"), W("the"), W("region"), W("of"), W("peru")>>}

RadiusPhrases ==
    {<<>>,
     <<W("within"), Km(200)>>, <<W("within"), Num(300), W("km")>>,
     <<W("within"), Num(0), W("km")>>, <<Num(50), W("km"), W("radius")>>,
     <<Num(100), W("kilometers")>>, <<W("within"), Num(200), W("miles")>>}

TimePhrases ==
    {<<>>,
     <<W("last"), W("week")>>, <<W("past"), W("week")>>,
     <<W("in"), W("the"), W("past"), W("week")>>,
     <<W("this"), W("month")>>, <<W("last"), W("month")>>,
     <<W("past"), Num(2), W("weeks")>>, <<Num(3), W("weeks")>>,
     <<W("today")>>, <<W("yesterday")>>, <<Dec(5, 5), W("days")>>}
    \cup {<<W("last"), Num(n), W("days")>> : n \in 0..MaxDays}

ThresholdPhrases ==
    {<<W("magnitude"), Num(5), W("or"), W("above")>>,
     <<W("above"), W("magnitude"), Dec(5, 5)>>,
     <<W("stronger"), W("than"), Num(6)>>}

Queries ==
    {m \o s \o p \o t :
        m \in MagnitudePhrases, s \in Subjects, p \in PlacePhrases, t \in TimePhrases}
    \cup {m \o s \o p \o r :
             m \in MagnitudePhrases, s \in Subjects, p \in PlacePhrases,
             r \in RadiusPhrases}
    \cup {s \o p \o r \o t :
             s \in Subjects, p \in PlacePhrases, r \in RadiusPhrases,
             t \in TimePhrases}
    \cup {s \o p \o t \o h :
             s \in Subjects, p \in PlacePhrases, t \in TimePhrases,
             h \in ThresholdPhrases}

\* the queries tried with every override and every answer of the services
CoreQueries ==
    {<<W("magnitude"), Plus(5), W("earthquakes"), W("near"), W("Tokyo"),
       W("in"), W("the"), W("past"), W("week")>>,
     <<W("earthquakes"), W("in"), W("Japan"), W("last"), Num(14), W("days")>>,
     <<W("earthquakes"), W("in"), W("Japan"), W("last"), Num(0), W("days")>>,
     <<W("earthquakes"), W("around"), W("Osaka"), W("within"), Km(300),
       W("last"), W("month")>>,
     <<W("earthquakes"), W("near"), W("Tokyo"), W("within"), Num(0), W("km"),
       W("last"), W("week")>>,
     <<W("recent"), W("seismic"), W("activity"), W("in"), W("california")>>,
     <<W("major"), W("earthquakes"), W("today")>>,
     <<W("earthquakes")>>}

LocationOverrides == {None, Some(<<>>), Some(<<"Osaka">>)}

DaysOverrides == {None, Some(0), Some(3)}

MagnitudeOverrides == {None, Some(0), Some(40)}

RadiusOverrides == {None, Some(0), Some(100)}

\* answers of the geocoder: a capital, a country, a state, a mountain
Places ==
    {Place(357, 1397, "PPLC"), Place(360, 1380, "PCLI"),
     Place(370, -1200, "ADM1"), Place(-100, -760, "MT")}

\* the services answer
CalmEnv ==
    [geo |-> Place(357, 1397, "PPLC"), geo2 |-> Place(357, 1397, "PPLC"),
     provider |-> "ok", pad |-> FALSE]

\* the geocoder is asked once, or twice for a rectangular search; each answer
\* may be a failure, and so may the answer of the USGS service
QuakeEnvs ==
    {[geo |-> g, geo2 |-> g2, provider |-> p, pad |-> FALSE] :
        g \in Places \cup {NotFound}, g2 \in Places \cup {NotFound},
        p \in {"ok", "error"}}
    \cap {e \in [geo : Places \cup {NotFound}, geo2 : Places \cup {NotFound},
                 provider : {"ok", "error"}, pad : {FALSE}] :
             e.geo2 \in {e.geo, NotFound}}

InitQuake ==
    /\ now \in StartClocks
    /\ ticks = 0
    /\ call = Idle
    /\ locals = NoLocals
    /\ sent = <<>>
    /\ result = NoResult
    /\ ServerAtStart

SearchCall(query, location, days, magnitude_threshold, radius_km, env) ==
    Returns([fn |-> "smart_earthquake_search", query |-> query,
             location |-> location, days |-> days,
             magnitude_threshold |-> magnitude_threshold, radius_km |-> radius_km,
             env |-> env],
            SmartEarthquakeSearch(query, location, days, magnitude_threshold,
                                  radius_km, env, now))

smart_earthquake_search ==
    /\ call = Idle
    /\ \/ \E query \in Queries : SearchCall(query, None, None, None, None, CalmEnv)
       \/ \E query \in CoreQueries, env \in QuakeEnvs :
              SearchCall(query, None, None, None, None, env)
       \/ \E query \in CoreQueries, location \in LocationOverrides,
             days \in DaysOverrides, magnitude_threshold \in MagnitudeOverrides,
             radius_km \in RadiusOverrides :
              SearchCall(query, location, days, magnitude_threshold, radius_km, CalmEnv)

LocationQueryCall(query, auto_detect_params, env) ==
    Returns([fn |-> "smart_location_earthquake_query", query |-> query,
             auto_detect_params |-> auto_detect_params, env |-> env],
            SmartLocationEarthquakeQuery(query, auto_detect_params, env, now))

smart_location_earthquake_query ==
    /\ call = Idle
    /\ \/ \E query \in Queries : LocationQueryCall(query, TRUE, CalmEnv)
       \/ \E query \in CoreQueries, auto_detect_params \in BOOLEAN, env \in QuakeEnvs :
              LocationQueryCall(query, auto_detect_params, env)

NextQuake == smart_earthquake_search \/ smart_location_earthquake_query \/ Done

SpecQuake == InitQuake /\ [][NextQuake]_vars

(***************************************************************************)
(* Properties of the natural-language earthquake tools.                    *)
(***************************************************************************)
SearchFn == call.fn = "smart_earthquake_search"

LocationFn == call.fn = "smart_location_earthquake_query"

\* smart_earthquake_search was called with the query alone
NoOverrides ==
    /\ call.location = None /\ call.days = None
    /\ call.magnitude_threshold = None /\ call.radius_km = None

\* no exception was raised while the query was parsed
QueryParsed == result.error # "exception"

\* the query is "magnitude M+ earthquakes near <Place> in the past week", M >= 1
PastWeekQuery(q) ==
    /\ Len(q) = 9
    /\ q[1] = W("magnitude") /\ q[2].k = "p" /\ q[2].a >= 1
    /\ q[3] = W("earthquakes") /\ q[4] = W("near") /\ q[5].k = "w"
    /\ SubSeq(q, 6, 9) = <<W("in"), W("the"), W("past"), W("week")>>

\* C1 as stated: smart_earthquake_search on "magnitude M+ earthquakes near
\* <Place> in the past week" without overrides ends with location = <Place>,
\* days = 7, magnitude = M and radius = 500, and searches around <Place>.
C1_PastWeekQueryNormalized ==
    (SearchFn /\ NoOverrides /\ PastWeekQuery(call.query))
        => /\ locals.location = Some(<<Lower(call.query[5].s)>>)
           /\ locals.days = Some(7)
           /\ locals.magnitude = Some(10 * call.query[2].a)
           /\ locals.radius_km = Some(500)
           /\ call.env.geo # NotFound => Len(sent) = 1 /\ sent[1].circle # None

\* C2 as stated: in smart_earthquake_search every override that is not None is
\* the final value of its field, whatever the value, 0, 0.0 and "" included.
C2_OverrideWins ==
    (SearchFn /\ QueryParsed)
        => /\ call.location # None => locals.location = call.location
           /\ call.days # None => locals.days = call.days
           /\ call.magnitude_threshold # None => locals.magnitude = call.magnitude_threshold
           /\ call.radius_km # None => locals.radius_km = call.radius_km

\* the value of a field after the defaults: the produced value, else the default
ProducedOr(produced, default) == IF produced = None THEN Some(default) ELSE produced

\* C3 as stated: the defaults 30, 2.5 and 500 fill exactly the numeric fields for
\* which nothing was produced, a value found in the text (such as the 0 of "last
\* 0 days") is never replaced by a default, and the location is never defaulted.
C3_DefaultsOnlyFillGaps ==
    /\ (SearchFn /\ NoOverrides /\ QueryParsed)
           => /\ locals.location = ExtractLocation(call.query)
              /\ locals.days = ProducedOr(ExtractDays(call.query).value, 30)
              /\ locals.magnitude = ProducedOr(ExtractMagnitude(call.query), 25)
              /\ locals.radius_km = ProducedOr(ExtractRadius(call.query), 500)
    /\ (LocationFn /\ call.auto_detect_params /\ QueryParsed)
           => /\ locals.location = ExtractLocation(call.query)
              /\ locals.days = ProducedOr(ExtractDays(call.query).value, 30)
              /\ locals.magnitude = ProducedOr(ExtractMagnitude(call.query), 25)

\* a call of one of the two tools that parsed its query, with every override
\* either absent or a value that is not 0 and not ""
PlainCall ==
    /\ SearchFn \/ LocationFn
    /\ QueryParsed
    /\ SearchFn =>
          /\ call.location # Some(<<>>) /\ call.days # Some(0)
          /\ call.magnitude_threshold # Some(0) /\ call.radius_km # Some(0)
    /\ LocationFn => call.auto_detect_params

\* the call has a location: given, or found in the text
LocationAsked ==
    (SearchFn /\ call.location # None) \/ ExtractLocation(call.query) # None

\* the call has a radius: given, or found in the text
RadiusAsked ==
    (SearchFn /\ call.radius_km # None) \/ ExtractRadius(call.query) # None

\* both lookups of the geocoder found the place
PlaceFound == call.env.geo # NotFound /\ call.env.geo2 # NotFound

IsCircular(request) == request.circle # None /\ request.box = None

IsRectangular(request) == request.box # None /\ request.circle = None

IsGlobal(request) == request.box = None /\ request.circle = None

FinalLocation == locals.location

FinalRadius == locals.radius_km

Distances == {0, 1, 3, 200}

ExtraTexts ==
    {<<W("no"), W("time"), W("mentioned")>>,
     <<W("recent")>>, <<W("today")>>, <<W("yesterday")>>,
     <<W("this"), W("week")>>, <<W("past"), W("month")>>,
     <<W("earthquakes"), W("Today"), W("last"), W("week")>>,
     <<W("significant"), W("magnitude"), Plus(7), W("earthquake")>>,
     <<W("magnitude"), Plus(7), W("significant"), W("earthquake")>>,
     <<W("major"), W("earthquakes"), W("stronger"), W("than"), Num(6)>>,
     <<W("minor"), W("or"), W("major"), W("earthquakes")>>,
     <<W("significant"), W("or"), W("major"), W("earthquakes")>>,
     <<W("magnitude"), Num(5)>>,
     <<Num(200), W("miles")>>,
     <<W("earthquakes"), Num(200), W("miles"), W("around"), W("Osaka")>>,
     <<W("Tokyo")>>,
     <<W("earthquakes"), W("near"), W("Tokyo"), W("during"), W("winter")>>}
    \cup {<<W("within"), Num(n), W("miles")>> : n \in Distances}
    \cup {<<W("within"), Num(n), W("km")>> : n \in Distances}
    \cup {<<W("within"), Km(n)>> : n \in Distances}
    \cup {<<Num(n), W("km"), W("radius")>> : n \in Distances}
    \cup {<<Num(n), W("kilometers")>> : n \in Distances}
    \cup {<<W(a), Num(n), W(u)>> :
             a \in {"last", "past"}, n \in 0..MaxDays, u \in {"days", "weeks"}}
    \cup {<<Num(n), W(u)>> : n \in 0..MaxDays, u \in {"days", "weeks"}}

\* the texts the extractors are called with
Texts == Queries \cup CoreQueries \cup ExtraTexts

InitExtract ==
    /\ now \in StartClocks
    /\ ticks = 0
    /\ call = Idle
    /\ locals = NoLocals
    /\ sent = <<>>
    /\ result = NoResult
    /\ ServerAtStart

\* an extractor is called with the text and returns, or raises
ExtractCall(fn, query, returned) ==
    Returns([fn |-> fn, query |-> query],
            [locals |-> NoLocals, sent |-> <<>>, result |-> returned])

extract_location_from_query ==
    /\ call = Idle
    /\ \E query \in Texts :
           ExtractCall("_extract_location_from_query", query,
                       Extracted(ExtractLocation(query)))

extract_time_period_from_query ==
    /\ call = Idle
    /\ \E query \in Texts :
           ExtractCall("_extract_time_period_from_query", query, ExtractDays(query))

extract_magnitude_from_query ==
    /\ call = Idle
    /\ \E query \in Texts :
           ExtractCall("_extract_magnitude_from_query", query,
                       Extracted(ExtractMagnitude(query)))

extract_radius_from_query ==
    /\ call = Idle
    /\ \E query \in Texts :
           ExtractCall("_extract_radius_from_query", query,
                       Extracted(ExtractRadius(query)))

NextExtract ==
    \/ extract_location_from_query
    \/ extract_time_period_from_query
    \/ extract_magnitude_from_query
    \/ extract_radius_from_query
    \/ Done

SpecExtract == InitExtract /\ [][NextExtract]_vars

(***************************************************************************)
(* Properties of the extractors.                                           *)
(***************************************************************************)
DaysFn == call.fn = "_extract_time_period_from_query"

\* the lowercased text of the call is exactly ws
TextIs(ws) == LowerText(call.query) = ws

\* the lowercased text of the call is "<anchor> N <unit>" or "N <unit>"
CountedText(anchors, units) ==
    \/ /\ Len(call.query) = 3
       /\ LowerText(call.query)[1] \in {W(a) : a \in anchors}
       /\ call.query[2].k = "n"
       /\ LowerText(call.query)[3] \in {W(u) : u \in units}
    \/ /\ Len(call.query) = 2 /\ "" \in anchors
       /\ call.query[1].k = "n"
       /\ LowerText(call.query)[2] \in {W(u) : u \in units}

\* the N of such a text
CountOf == IF Len(call.query) = 3 THEN call.query[2].a ELSE call.query[1].a

\* C11 as stated: the day-count extractor returns for every text (it never
\* raises), and gives N for "last/past N days" and "N days", 7 for
\* "last/past/this week", 30 for "last/past/this month", 7*N for "last/past N
\* weeks", 1 for "today", 2 for "yesterday", 14 for "recent", and None for a
\* text without a time such as "no time mentioned".
C11_DayCountRules ==
    DaysFn =>
        /\ ~result.raised
        /\ CountedText({"last", "past", ""}, {"day", "days"})
               => result.value = Some(CountOf)
        /\ (\E a \in {"last", "past", "this"} : TextIs(<<W(a), W("week")>>))
               => result.value = Some(7)
        /\ (\E a \in {"last", "past", "this"} : TextIs(<<W(a), W("month")>>))
               => result.value = Some(30)
        /\ CountedText({"last", "past"}, {"week", "weeks"})
               => result.value = Some(7 * CountOf)
        /\ TextIs(<<W("today")>>) => result.value = Some(1)
        /\ TextIs(<<W("yesterday")>>) => result.value = Some(2)
        /\ TextIs(<<W("recent")>>) => result.value = Some(14)
        /\ TextIs(<<W("no"), W("time"), W("mentioned")>>) => result.value = None

MagnitudeFn == call.fn = "_extract_magnitude_from_query"

\* the token is a number followed by "+"
PlusNumber(t) == t.k \in {"p", "dp"}

\* the token is a number and nothing else
PlainNumber(t) == t.k \in {"n", "d"}

\* the number a token starts with, in tenths
TenthsOf(t) == 10 * t.a + (IF t.k \in {"d", "dp"} THEN t.b ELSE 0)

\* the numbers that stand in the text q in one of the six numeric forms:
\* magnitude N+, mag N+, N+ magnitude, magnitude N (or) above|higher,
\* above magnitude N, stronger than N
NumericReadings(q) ==
    {TenthsOf(q[i + 1]) :
        i \in {j \in 1..(Len(q) - 1) :
                  q[j] \in {W("magnitude"), W("mag")} /\ PlusNumber(q[j + 1])}}
    \cup {TenthsOf(q[i]) :
             i \in {j \in 1..(Len(q) - 1) :
                       PlusNumber(q[j]) /\ q[j + 1] = W("magnitude")}}
    \cup {TenthsOf(q[i + 1]) :
             i \in {j \in 1..(Len(q) - 2) :
                       /\ q[j] = W("magnitude") /\ PlainNumber(q[j + 1])
                       /\ \/ q[j + 2] \in {W("above"), W("higher")}
                          \/ /\ j + 3 <= Len(q) /\ q[j + 2] = W("or")
                             /\ q[j + 3] \in {W("above"), W("higher")}}}
    \cup {TenthsOf(q[i + 2]) :
             i \in {j \in 1..(Len(q) - 2) :
                       /\ <<q[j], q[j + 1]>> \in {<<W("above"), W("magnitude")>>,
                                                  <<W("stronger"), W("than")>>}
                       /\ q[j + 2].k # "w"}}

\* the text holds the word
HasWord(q, word) == \E i \in 1..Len(q) : q[i] = W(word)

\* what the qualitative words of the text stand for, in tenths
QualitativeReading(q) ==
    IF HasWord(q, "significant") THEN Some(45)
    ELSE IF HasWord(q, "major") THEN Some(60)
    ELSE IF HasWord(q, "minor") THEN Some(20)
    ELSE None

\* the value v is what the claim gives for the text q
MagnitudeAsClaimed(q, readings, v) ==
    IF readings # {} THEN v # None /\ The(v) \in readings
    ELSE v = QualitativeReading(q)

\* C12: in the magnitude extractor a text that holds a number in one of the
\* numeric forms gives that number wherever the qualitative words stand (so
\* "significant magnitude 7+ earthquake" gives 7.0); a text without one gives
\* 4.5 for "significant", else 6.0 for "major", else 2.0 for "minor", else None.
C12_NumericBeforeWords ==
    MagnitudeFn =>
        /\ ~result.raised
        /\ MagnitudeAsClaimed(LowerText(call.query),
                              NumericReadings(LowerText(call.query)), result.value)
        /\ TextIs(<<W("significant"), W("magnitude"), Plus(7), W("earthquake")>>)
               => result.value = Some(70)

\* C12 witness: "significant magnitude 7+ earthquake" gave 7.0
C12_Witness ==
    /\ MagnitudeFn
    /\ TextIs(<<W("significant"), W("magnitude"), Plus(7), W("earthquake")>>)
    /\ result.value = Some(70)

RadiusFn == call.fn = "_extract_radius_from_query"

\* N * 1.60934 rounded to the nearest integer
RoundedKm(n) == (n * 160934 + 50000) \div 100000

\* N * 1.60934 floored to an integer
FlooredKm(n) == (n * 160934) \div 100000

\* the positions of the text q where "within N <unit>" starts
WithinAt(q, units) ==
    {j \in 1..(Len(q) - 2) :
        q[j] = W("within") /\ q[j + 1].k = "n" /\ q[j + 2] \in {W(u) : u \in units}}

\* C13 as stated: "within N miles" gives round(N * 1.60934) kilometres, so
\* "within 200 miles" gives 322.
C13_MilesRounded ==
    RadiusFn =>
        /\ \A j \in WithinAt(LowerText(call.query), {"mile", "miles"}) :
               result.value = Some(RoundedKm(call.query[j + 1].a))
        /\ TextIs(<<W("within"), Num(200), W("miles")>>) => result.value = Some(322)

\* the radii that stand in the text q in one of the four forms: within N km,
\* N km radius, N kilometers (N unchanged), within N miles (floored)
RadiusReadings(q) ==
    {q[j + 1].a : j \in WithinAt(q, {"km"})}
    \cup {q[j + 1].a : j \in {i \in 1..(Len(q) - 1) : q[i] = W("within") /\ q[i + 1].k = "km"}}
    \cup {q[j].a : j \in {i \in 1..(Len(q) - 1) : q[i].k = "km" /\ q[i + 1] = W("radius")}}
    \cup {q[j].a : j \in {i \in 1..(Len(q) - 2) :
                             /\ q[i].k = "n" /\ q[i + 1] = W("km")
                             /\ q[i + 2] = W("radius")}}
    \cup {q[j].a : j \in {i \in 1..(Len(q) - 1) :
                             q[i].k = "n" /\ q[i + 1] \in {W("kilometer"), W("kilometers")}}}
    \cup {FlooredKm(q[j + 1].a) : j \in WithinAt(q, {"mile", "miles"})}

\* the value v is what the claim gives for a text with these readings
RadiusAsClaimed(readings, v) ==
    /\ readings = {} => v = None
    /\ \A n \in readings : readings = {n} => v = Some(n)

\* C14: the radius extractor gives N unchanged for "within N km", "N km
\* radius" and "N kilometers", N * 1.60934 floored to an integer for "within N
\* miles" (321 for 200 miles), and None when the text holds none of these
\* forms, a miles phrase without "within" included.
C14_RadiusForms ==
    RadiusFn =>
        /\ ~result.raised
        /\ RadiusAsClaimed(RadiusReadings(LowerText(call.query)), result.value)
        /\ TextIs(<<W("within"), Num(200), W("miles")>>) => result.value = Some(321)
        /\ TextIs(<<Num(200), W("miles")>>) => result.value = None

\* C14 witness: "within 200 miles" gave 321
C14_Witness ==
    /\ RadiusFn
    /\ TextIs(<<W("within"), Num(200), W("miles")>>)
    /\ result.value = Some(321)

LocationExtractorFn == call.fn = "_extract_location_from_query"

\* the text q ends with "<subject> <in|near|around>" and the words of a place
PlaceEndsText(q, j) ==
    /\ j >= 2 /\ j < Len(q)
    /\ q[j - 1] \in {W("earthquakes"), W("activity")}
    /\ q[j] \in {W("in"), W("near"), W("around")}
    /\ \A n \in (j + 1)..Len(q) :
           q[n].k = "w" /\ q[n].s \notin {"the", "area", "region", "in", "near", "around"}
                        /\ ~Terminates(q[n])

\* C15 as stated: the location extractor returns the whole span of words
\* between the preposition and the terminating keyword or the end of the text:
\* a place of several words that ends the query is returned in full ("recent
\* earthquakes in New Zealand" gives "new zealand"), and a place after "near"
\* is found when "in the past week" follows it.
C15_WholeSpanReturned ==
    LocationExtractorFn =>
        /\ \A j \in 1..Len(call.query) :
               PlaceEndsText(LowerText(call.query), j)
                   => result.value
                          = Some([n \in 1..(Len(call.query) - j) |->
                                     LowerText(call.query)[j + n].s])
        /\ TextIs(<<W("recent"), W("earthquakes"), W("in"), W("new"), W("zealand")>>)
               => result.value = Some(<<"new", "zealand">>)
        /\ PastWeekQuery(call.query)
               => result.value = Some(<<Lower(call.query[5].s)>>)

(***************************************************************************)
(* get_dynamic_boundaries and get_earthquakes_by_region.                   *)
(***************************************************************************)
\* padding_degrees: float = 1.0
DefaultPadding == 10

\* days_back: int = 30 of get_earthquakes_by_region
DefaultDaysBack == 30

\* min_magnitude: float = 4.0
DefaultMinMagnitude == 40

\* limit: int = 100
DefaultLimit == 100

\* the keys of region_boundaries
TableNames ==
    {"pacific ring of fire", "ring of fire", "mediterranean", "himalayan region",
     "himalaya", "middle east", "caribbean", "pacific",
     "atlantic", "san andreas fault", "anatolian fault", "north anatolian fault",
     "alpine fault", "dead sea fault", "mid-atlantic ridge", "east pacific rise",
     "indian ocean ridge", "cascadia subduction zone", "japan trench", "peru-chile trench",
     "mariana trench", "aleutian trench", "yellowstone", "kamchatka",
     "iceland", "andes", "california", "alaska",
     "indonesia", "philippines", "new zealand", "chile",
     "mexico", "turkey", "iran", "italy",
     "greece", "japan", "taiwan", "papua new guinea",
     "vanuatu", "solomon islands", "fiji", "tonga",
     "peru", "ecuador", "colombia", "afghanistan",
     "pakistan", "india", "nepal", "bhutan",
     "myanmar", "china", "mongolia", "kyrgyzstan",
     "tajikistan", "uzbekistan", "kazakhstan", "russia",
     "haiti", "guatemala", "costa rica", "el salvador",
     "nicaragua"}

\* region_boundaries, in tenths of a degree
RegionTable(name) ==
    CASE name = "pacific ring of fire"
             -> Some([min_lat |-> -600, max_lat |-> 700, min_lon |-> -1800, max_lon |-> 1800])
      [] name = "ring of fire"
             -> Some([min_lat |-> -600, max_lat |-> 700, min_lon |-> -1800, max_lon |-> 1800])
      [] name = "mediterranean"
             -> Some([min_lat |-> 300, max_lat |-> 480, min_lon |-> -100, max_lon |-> 420])
      [] name = "himalayan region"
             -> Some([min_lat |-> 250, max_lat |-> 400, min_lon |-> 700, max_lon |-> 1050])
      [] name = "himalaya"
             -> Some([min_lat |-> 250, max_lat |-> 400, min_lon |-> 700, max_lon |-> 1050])
      [] name = "middle east"
             -> Some([min_lat |-> 120, max_lat |-> 420, min_lon |-> 250, max_lon |-> 650])
      [] name = "caribbean"
             -> Some([min_lat |-> 100, max_lat |-> 280, min_lon |-> -900, max_lon |-> -580])
      [] name = "pacific"
             -> Some([min_lat |-> -600, max_lat |-> 700, min_lon |-> 1200, max_lon |-> -700])
      [] name = "atlantic"
             -> Some([min_lat |-> -600, max_lat |-> 700, min_lon |-> -800, max_lon |-> 200])
      [] name = "san andreas fault"
             -> Some([min_lat |-> 320, max_lat |-> 400, min_lon |-> -1250, max_lon |-> -1150])
      [] name = "anatolian fault"
             -> Some([min_lat |-> 380, max_lat |-> 420, min_lon |-> 260, max_lon |-> 420])
      [] name = "north anatolian fault"
             -> Some([min_lat |-> 390, max_lat |-> 420, min_lon |-> 260, max_lon |-> 420])
      [] name = "alpine fault"
             -> Some([min_lat |-> -470, max_lat |-> -400, min_lon |-> 1660, max_lon |-> 1720])
      [] name = "dead sea fault"
             -> Some([min_lat |-> 290, max_lat |-> 370, min_lon |-> 340, max_lon |-> 370])
      [] name = "mid-atlantic ridge"
             -> Some([min_lat |-> -600, max_lat |-> 700, min_lon |-> -450, max_lon |-> -50])
      [] name = "east pacific rise"
             -> Some([min_lat |-> -550, max_lat |-> 600, min_lon |-> -1300, max_lon |-> -1000])
      [] name = "indian ocean ridge"
             -> Some([min_lat |-> -550, max_lat |-> 250, min_lon |-> 200, max_lon |-> 900])
      [] name = "cascadia subduction zone"
             -> Some([min_lat |-> 400, max_lat |-> 500, min_lon |-> -1300, max_lon |-> -1200])
      [] name = "japan trench"
             -> Some([min_lat |-> 300, max_lat |-> 450, min_lon |-> 1400, max_lon |-> 1480])
      [] name = "peru-chile trench"
             -> Some([min_lat |-> -450, max_lat |-> -50, min_lon |-> -850, max_lon |-> -650])
      [] name = "mariana trench"
             -> Some([min_lat |-> 100, max_lat |-> 250, min_lon |-> 1400, max_lon |-> 1480])
      [] name = "aleutian trench"
             -> Some([min_lat |-> 500, max_lat |-> 600, min_lon |-> -1800, max_lon |-> -1400])
      [] name = "yellowstone"
             -> Some([min_lat |-> 440, max_lat |-> 455, min_lon |-> -1115, max_lon |-> -1100])
      [] name = "kamchatka"
             -> Some([min_lat |-> 500, max_lat |-> 620, min_lon |-> 1550, max_lon |-> 1660])
      [] name = "iceland"
             -> Some([min_lat |-> 630, max_lat |-> 670, min_lon |-> -250, max_lon |-> -130])
      [] name = "andes"
             -> Some([min_lat |-> -550, max_lat |-> 120, min_lon |-> -820, max_lon |-> -650])
      [] name = "california"
             -> Some([min_lat |-> 320, max_lat |-> 420, min_lon |-> -1250, max_lon |-> -1140])
      [] name = "alaska"
             -> Some([min_lat |-> 550, max_lat |-> 720, min_lon |-> -1800, max_lon |-> -1300])
      [] name = "indonesia"
             -> Some([min_lat |-> -110, max_lat |-> 60, min_lon |-> 950, max_lon |-> 1410])
      [] name = "philippines"
             -> Some([min_lat |-> 40, max_lat |-> 210, min_lon |-> 1160, max_lon |-> 1270])
      [] name = "new zealand"
             -> Some([min_lat |-> -470, max_lat |-> -340, min_lon |-> 1660, max_lon |-> 1790])
      [] name = "chile"
             -> Some([min_lat |-> -560, max_lat |-> -170, min_lon |-> -760, max_lon |-> -660])
      [] name = "mexico"
             -> Some([min_lat |-> 140, max_lat |-> 330, min_lon |-> -1180, max_lon |-> -860])
      [] name = "turkey"
             -> Some([min_lat |-> 350, max_lat |-> 430, min_lon |-> 250, max_lon |-> 450])
      [] name = "iran"
             -> Some([min_lat |-> 250, max_lat |-> 400, min_lon |-> 440, max_lon |-> 640])
      [] name = "italy"
             -> Some([min_lat |-> 350, max_lat |-> 470, min_lon |-> 60, max_lon |-> 190])
      [] name = "greece"
             -> Some([min_lat |-> 340, max_lat |-> 420, min_lon |-> 190, max_lon |-> 300])
      [] name = "japan"
             -> Some([min_lat |-> 240, max_lat |-> 460, min_lon |-> 1290, max_lon |-> 1460])
      [] name = "taiwan"
             -> Some([min_lat |-> 210, max_lat |-> 260, min_lon |-> 1190, max_lon |-> 1220])
      [] name = "papua new guinea"
             -> Some([min_lat |-> -120, max_lat |-> -10, min_lon |-> 1400, max_lon |-> 1560])
      [] name = "vanuatu"
             -> Some([min_lat |-> -210, max_lat |-> -130, min_lon |-> 1660, max_lon |-> 1710])
      [] name = "solomon islands"
             -> Some([min_lat |-> -120, max_lat |-> -50, min_lon |-> 1550, max_lon |-> 1630])
      [] name = "fiji"
             -> Some([min_lat |-> -220, max_lat |-> -120, min_lon |-> 1770, max_lon |-> -1770])
      [] name = "tonga"
             -> Some([min_lat |-> -250, max_lat |-> -150, min_lon |-> -1770, max_lon |-> -1730])
      [] name = "peru"
             -> Some([min_lat |-> -185, max_lat |-> -5, min_lon |-> -820, max_lon |-> -680])
      [] name = "ecuador"
             -> Some([min_lat |-> -50, max_lat |-> 20, min_lon |-> -820, max_lon |-> -750])
      [] name = "colombia"
             -> Some([min_lat |-> -50, max_lat |-> 130, min_lon |-> -820, max_lon |-> -660])
      [] name = "afghanistan"
             -> Some([min_lat |-> 290, max_lat |-> 390, min_lon |-> 600, max_lon |-> 750])
      [] name = "pakistan"
             -> Some([min_lat |-> 230, max_lat |-> 370, min_lon |-> 600, max_lon |-> 780])
      [] name = "india"
             -> Some([min_lat |-> 60, max_lat |-> 370, min_lon |-> 680, max_lon |-> 970])
      [] name = "nepal"
             -> Some([min_lat |-> 260, max_lat |-> 310, min_lon |-> 800, max_lon |-> 890])
      [] name = "bhutan"
             -> Some([min_lat |-> 265, max_lat |-> 285, min_lon |-> 885, max_lon |-> 925])
      [] name = "myanmar"
             -> Some([min_lat |-> 90, max_lat |-> 290, min_lon |-> 920, max_lon |-> 1020])
      [] name = "china"
             -> Some([min_lat |-> 180, max_lat |-> 540, min_lon |-> 730, max_lon |-> 1350])
      [] name = "mongolia"
             -> Some([min_lat |-> 410, max_lat |-> 520, min_lon |-> 870, max_lon |-> 1200])
      [] name = "kyrgyzstan"
             -> Some([min_lat |-> 390, max_lat |-> 440, min_lon |-> 690, max_lon |-> 810])
      [] name = "tajikistan"
             -> Some([min_lat |-> 360, max_lat |-> 410, min_lon |-> 670, max_lon |-> 750])
      [] name = "uzbekistan"
             -> Some([min_lat |-> 370, max_lat |-> 460, min_lon |-> 550, max_lon |-> 740])
      [] name = "kazakhstan"
             -> Some([min_lat |-> 400, max_lat |-> 560, min_lon |-> 460, max_lon |-> 880])
      [] name = "russia"
             -> Some([min_lat |-> 410, max_lat |-> 820, min_lon |-> 190, max_lon |-> -1690])
      [] name = "haiti"
             -> Some([min_lat |-> 175, max_lat |-> 205, min_lon |-> -750, max_lon |-> -710])
      [] name = "guatemala"
             -> Some([min_lat |-> 130, max_lat |-> 180, min_lon |-> -930, max_lon |-> -880])
      [] name = "costa rica"
             -> Some([min_lat |-> 80, max_lat |-> 115, min_lon |-> -860, max_lon |-> -825])
      [] name = "el salvador"
             -> Some([min_lat |-> 125, max_lat |-> 145, min_lon |-> -905, max_lon |-> -875])
      [] name = "nicaragua"
             -> Some([min_lat |-> 105, max_lat |-> 155, min_lon |-> -880, max_lon |-> -830])
      [] OTHER -> None

\* _get_region_boundaries: region_boundaries.get(region.lower())
RegionBoundaries(region) == RegionTable(Lower(region))

\* the requests of the first search come before those of the second
After(earlier, out) == [out EXCEPT !.sent = earlier \o out.sent]

\* get_earthquakes_by_region from "Set up time parameters": the rectangular
\* search of the boundaries of the table
StaticSearch(boundaries, start_time, end_time, min_magnitude, limit, env) ==
    IF start_time = Raised THEN QuakeFailure("exception", <<>>)
    ELSE Answer(env.provider2,
                [Params(start_time, end_time, min_magnitude, limit, env.pad)
                    EXCEPT !.box = Some(Box(boundaries))],
                "region", None)

\* get_earthquakes_by_region once the table is looked up
RegionFallback(boundaries, days_back, min_magnitude, limit, env, today) ==
    IF boundaries = None THEN QuakeFailure("unknown_region", <<>>)
    ELSE StaticSearch(The(boundaries), MinusDays(today, days_back), today,
                      min_magnitude, limit, env)

\* the locals result and boundaries; boundaries stays unassigned (None) when
\* the table is not looked up
RegionLocals(dynamic_status, boundaries) ==
    [dynamic |-> dynamic_status, boundaries |-> boundaries]

RegionOutcome(out, lcl) == [result |-> out.result, sent |-> out.sent, locals |-> lcl]

\* get_earthquakes_by_region once the dynamic search has returned
RegionAfter(dynamic, region, days_back, min_magnitude, limit, env, today) ==
    IF dynamic.result.status = "error"
    THEN RegionOutcome(After(dynamic.sent,
                             RegionFallback(RegionBoundaries(region), days_back,
                                            min_magnitude, limit, env, today)),
                       RegionLocals("error", Some(RegionBoundaries(region))))
    ELSE RegionOutcome(dynamic, RegionLocals("success", None))

\* get_earthquakes_by_region
EarthquakesByRegion(region, days_back, min_magnitude, limit, env, today) ==
    RegionAfter(EarthquakesByAnyLocation(region, days_back, min_magnitude, None,
                                         limit, env, today),
                region, days_back, min_magnitude, limit, env, today)

\* get_dynamic_boundaries as a tool: nothing is requested from the USGS
BoundariesTool(found, padding_degrees) ==
    [result |-> DynamicBoundaries(found, IF padding_degrees = None THEN DefaultPadding
                                         ELSE The(padding_degrees)),
     sent |-> <<>>, locals |-> NoLocals]

FeatureCodes == {"PCLI", "PCL", "ADM1", "PPL", "PPLA", "PPLC", "MT", "ADM2", ""}

\* answers of the geocoder for get_dynamic_boundaries
GeoPlaces ==
    {Place(lat, lon, code) : lat \in {357, -895}, lon \in {1397, -1798},
                             code \in FeatureCodes}

\* padding_degrees: left out, or given
PaddingArgs == {None, Some(0), Some(5), Some(25), Some(70)}

\* every name of the table, names in other letter case, names not in the table
Regions ==
    TableNames \cup {"Pacific Ring of Fire", "Mediterranean", "Japan", "Fiji", "Tokyo",
                     "Atlantis"}

\* days_back: the default, and a number of days no date is that far back
DaysBackArgs == {DefaultDaysBack, 740000}

\* the geocoder answers once or twice, the USGS service once or twice
RegionEnvs ==
    {[geo |-> e.geo, geo2 |-> e.geo2, provider |-> e.provider, pad |-> e.pad,
      provider2 |-> p2] : e \in QuakeEnvs, p2 \in {"ok", "error"}}

InitGeo ==
    /\ now \in StartClocks
    /\ ticks = 0
    /\ call = Idle
    /\ locals = NoLocals
    /\ sent = <<>>
    /\ result = NoResult
    /\ ServerAtStart

get_dynamic_boundaries ==
    /\ call = Idle
    /\ \E location \in Regions, found \in GeoPlaces \cup {NotFound},
          padding_degrees \in PaddingArgs :
           Returns([fn |-> "get_dynamic_boundaries", location |-> location,
                    padding_degrees |-> padding_degrees, env |-> [geo |-> found]],
                   BoundariesTool(found, padding_degrees))

get_earthquakes_by_region ==
    /\ call = Idle
    /\ \E region \in Regions, days_back \in DaysBackArgs, env \in RegionEnvs :
           Returns([fn |-> "get_earthquakes_by_region", region |-> region,
                    days_back |-> days_back, env |-> env],
                   EarthquakesByRegion(region, days_back, DefaultMinMagnitude,
                                       DefaultLimit, env, now))

NextGeo == get_dynamic_boundaries \/ get_earthquakes_by_region \/ Done

SpecGeo == InitGeo /\ [][NextGeo]_vars

(***************************************************************************)
(* Properties of get_dynamic_boundaries and get_earthquakes_by_region.     *)
(***************************************************************************)
BoundariesFn == call.fn = "get_dynamic_boundaries"

\* the half-width of the box for a feature code, in tenths of a degree
HalfWidth(feature_code, given) ==
    CASE feature_code \in {"PCLI", "PCL"} -> 50
      [] feature_code = "ADM1" -> 20
      [] feature_code \in {"PPL", "PPLA", "PPLC"} -> 5
      [] OTHER -> IF given = None THEN 10 ELSE The(given)

\* b is the box of half-width w around (lat, lon)
BoxAround(b, lat, lon, w) ==
    /\ b.min_lat = lat - w /\ b.max_lat = lat + w
    /\ b.min_lon = lon - w /\ b.max_lon = lon + w

\* C16: get_dynamic_boundaries returns the box around the latitude and the
\* longitude of the first match with the same half-width on both axes: 5.0
\* degrees for PCLI and PCL, 2.0 for ADM1, 0.5 for PPL, PPLA and PPLC whatever
\* padding the caller gives, and the caller's padding_degrees (1.0 when left
\* out) for every other feature code; without a match it returns an error.
C16_SymmetricBox ==
    BoundariesFn =>
        IF call.env.geo = NotFound THEN result.status = "error"
        ELSE /\ result.status = "success"
             /\ BoxAround(result.boundaries, call.env.geo.latitude,
                          call.env.geo.longitude,
                          HalfWidth(call.env.geo.feature_code, call.padding_degrees))

\* C16 witness: a country looked up with padding 2.5 got the half-width 5.0
C16_Witness ==
    /\ BoundariesFn /\ call.env.geo # NotFound
    /\ call.env.geo.feature_code = "PCLI" /\ call.padding_degrees = Some(25)
    /\ result.status = "success"
    /\ result.boundaries.max_lat - result.boundaries.min_lat = 100
    /\ result.boundaries.max_lon - result.boundaries.min_lon = 100

RegionFn == call.fn = "get_earthquakes_by_region"

\* the dynamic resolution found the region: both lookups of the geocoder answered
RegionResolved == call.env.geo # NotFound /\ call.env.geo2 # NotFound

\* the table of regions was looked up
TableConsulted == locals.boundaries # None

\* C17 as stated: in get_earthquakes_by_region the table of regions is looked
\* up only after the dynamic resolution has failed, by the lowercased name;
\* when the table has the name the search is made with the box of the table,
\* and the unknown-region error is returned only when the dynamic resolution
\* and the table both fail.
C17_TableOnlyAfterResolutionFails ==
    RegionFn =>
        /\ TableConsulted => ~RegionResolved
        /\ TableConsulted => locals.boundaries = Some(RegionTable(Lower(call.region)))
        /\ (TableConsulted /\ RegionTable(Lower(call.region)) # None
            /\ call.days_back = 30)
               => /\ sent # <<>>
                  /\ sent[Len(sent)].box
                         = Some(Box(The(RegionTable(Lower(call.region)))))
        /\ result.error = "unknown_region"
               => ~RegionResolved /\ RegionTable(Lower(call.region)) = None

(***************************************************************************)
(* The five public tools together.                                         *)
(***************************************************************************)
InitTools ==
    /\ now \in StartClocks
    /\ ticks = 0
    /\ call = Idle
    /\ locals = NoLocals
    /\ sent = <<>>
    /\ result = NoResult
    /\ ServerAtStart

NextTools ==
    \/ get_historical_weather
    \/ smart_earthquake_search
    \/ smart_location_earthquake_query
    \/ get_dynamic_boundaries
    \/ get_earthquakes_by_region
    \/ Done

SpecTools == InitTools /\ [][NextTools]_vars

\* the call met a failure: an extractor raised, the calendar arithmetic
\* raised, a lookup of the geocoder failed or a provider failed
FailureMet ==
    \/ /\ call.fn \in {"smart_earthquake_search", "smart_location_earthquake_query"}
       /\ \/ ExtractDays(call.query).raised /\ (SearchFn => call.days = None)
                                            /\ (LocationFn => call.auto_detect_params)
          \/ call.env.provider = "error"
    \/ /\ call.fn = "get_historical_weather"
       /\ \/ YearSpanCall /\ SpanCount >= YearOf(now.day)
          \/ call.env.geo = "error"
          \/ call.env.provider = "error"
    \/ /\ call.fn = "get_dynamic_boundaries" /\ call.env.geo = NotFound
    \/ /\ call.fn = "get_earthquakes_by_region"
       /\ \/ call.days_back >= now.day
          \/ call.env.geo = NotFound /\ RegionTable(Lower(call.region)) = None

\* C18: every call of smart_earthquake_search, smart_location_earthquake_query,
\* get_dynamic_boundaries, get_earthquakes_by_region and get_historical_weather
\* returns a result whose status is "success" or "error"; a failure of an
\* extractor, of the calendar arithmetic, of the geocoder or of the provider
\* comes back as an error result, never as an exception.
C18_StructuredResult ==
    call # Idle =>
        /\ result.status \in {"success", "error"}
        /\ FailureMet => result.status = "error"

\* C18 witness: the day-count extractor raised inside smart_earthquake_search
\* and the call returned an error result
C18_Witness ==
    /\ SearchFn /\ NoOverrides
    /\ ExtractDays(call.query).raised
    /\ result.status = "error"

\* the table has the region and the search of its box was made
StaticSearchMade ==
    /\ RegionFn /\ TableConsulted
    /\ RegionTable(Lower(call.region)) # None
    /\ call.days_back < now.day

\* the request carries the four numbers of the entry t and no circle
CarriesEntry(request, t) ==
    /\ request.circle = None
    /\ request.box = Some([minlatitude |-> t.min_lat, maxlatitude |-> t.max_lat,
                           minlongitude |-> t.min_lon, maxlongitude |-> t.max_lon])

\* the entries whose box crosses the antimeridian
AntimeridianNames == {"pacific", "fiji", "russia"}

\* C23: the lookup in the table of regions returns the stored box unchanged and
\* the fallback search sends exactly its min/max latitude and longitude; every
\* entry has min_lat < max_lat, and the entries pacific, fiji and russia keep
\* min_lon > max_lon in the table and in the request.
C23_TableBoxUnchanged ==
    /\ \A name \in TableNames :
           /\ RegionTable(name) # None
           /\ The(RegionTable(name)).min_lat < The(RegionTable(name)).max_lat
           /\ name \in AntimeridianNames
                  => The(RegionTable(name)).min_lon > The(RegionTable(name)).max_lon
    /\ StaticSearchMade =>
           /\ locals.boundaries = Some(RegionTable(Lower(call.region)))
           /\ sent # <<>>
           /\ CarriesEntry(sent[Len(sent)], The(RegionTable(Lower(call.region))))
           /\ Lower(call.region) \in AntimeridianNames
                  => The(sent[Len(sent)].box).minlongitude
                         > The(sent[Len(sent)].box).maxlongitude

\* C23 witness: the search of "Fiji" fell back to the table and asked for the
\* longitudes 177.0 to -177.0
C23_Witness ==
    /\ RegionFn /\ call.region = "Fiji" /\ TableConsulted
    /\ result.status = "success"
    /\ The(sent[Len(sent)].box).minlongitude = 1770
    /\ The(sent[Len(sent)].box).maxlongitude = -1770

(***************************************************************************)
(* get_weather: current weather, or historical weather when the query      *)
(* speaks of the past.                                                     *)
(***************************************************************************)
\* lines 229-300: the forecast request for the current conditions
CurrentWeather(env) ==
    IF env.geo = "error" THEN Failure("geocoding", NoLocals)
    ELSE IF env.provider = "ok"
    THEN Outcome("success", "", <<>>, NoLocals, <<[api |-> "forecast", current |-> TRUE]>>)
    ELSE Outcome("error", "provider", <<>>, NoLocals,
                 <<[api |-> "forecast", current |-> TRUE]>>)

\* historical_indicators
HistoricalIndicators ==
    {"past", "last", "previous", "ago", "history", "historical",
     "winter", "summer", "spring", "autumn", "fall",
     "january", "february", "march", "april", "may", "june",
     "july", "august", "september", "october", "november", "december"}

\* every four-digit run counts as a year
YearPatterns_AnyFourDigits(query) ==
    {i \in 1..Len(query) : FourDigitRuns(query[i]) # <<>>}

\* re.findall(r'\b(19[4-9]\d|20[0-4]\d)\b', query_lower): the tokens with a match
YearPatterns(query) ==
    {i \in 1..Len(query) :
        \/ query[i].k \in {"n", "r"} /\ query[i].a \in 1940..2049
        \/ query[i].k = "r" /\ query[i].b \in 1940..2049}

\* lines 1036-1059
GetWeather(query, env, today) ==
    IF query = None \/ The(query) = <<>> THEN CurrentWeather(env)
    ELSE IF (\E indicator \in HistoricalIndicators : Contains(The(query), indicator))
            \/ YearPatterns(The(query)) # {}
    THEN HistoricalWeather(query, None, None, env, today)
    ELSE CurrentWeather(env)

\* queries that speak of the past, of now, of years inside and outside 1940-2049
WeatherQueries ==
    TimePeriods
    \cup {<<W("now")>>, <<W("forecast"), W("tomorrow")>>, <<W("mayor")>>,
          <<W("history")>>, <<Num(5), W("days"), W("ago")>>, <<W("march"), Num(1939)>>,
          <<Num(1940)>>, <<Num(2049)>>, <<Num(2050)>>, <<Num(20235)>>,
          <<Rng(1930, 1945)>>, <<Rng(1930, 1935)>>, <<W("weather"), Num(3000)>>}

get_weather ==
    /\ call = Idle
    /\ \E env \in Envs, query \in {None} \cup {Some(q) : q \in WeatherQueries} :
           Returns([fn |-> "get_weather", query |-> query, env |-> env],
                   GetWeather(query, env, now))

NextWeather == Tick \/ get_weather \/ Done

SpecWeather == InitHist /\ [][NextWeather]_vars

WeatherFn == call.fn = "get_weather"

\* the words that show a query speaks of the past
IndicatorWords ==
    {"past", "last", "previous", "ago", "history", "historical", "winter", "summer",
     "spring", "autumn", "fall", "march", "may", "august"}

\* a word of the query has an indicator in it, or a number of it is a year of
\* 1940-2049
SpeaksOfPast(q) ==
    \E i \in 1..Len(q) :
        \/ q[i].k = "w" /\ \E w \in IndicatorWords : Lower(q[i].s) \in WordsContaining(w)
        \/ q[i].k = "n" /\ q[i].a >= 1940 /\ q[i].a <= 2049
        \/ q[i].k = "r" /\ (   (q[i].a >= 1940 /\ q[i].a <= 2049)
                            \/ (q[i].b >= 1940 /\ q[i].b <= 2049))

\* the call asked for the current conditions and nothing else
AnsweredCurrent ==
    /\ locals = NoLocals
    /\ result.period = <<>>
    /\ result.error \in {"", "geocoding", "provider"}
    /\ \A i \in 1..Len(sent) : sent[i].api = "forecast"
    /\ call.env.geo = "found" => Len(sent) = 1

\* the call returned what get_historical_weather returns for the whole query
AnsweredHistorical ==
    /\ result = HistoricalWeather(call.query, None, None, call.env, now).result
    /\ locals = HistoricalWeather(call.query, None, None, call.env, now).locals
    /\ sent = HistoricalWeather(call.query, None, None, call.env, now).sent
    /\ \A i \in 1..Len(sent) : sent[i].api = "archive"

DocumentedQueries ==
    {<<W("past"), Num(5), W("years")>>, <<W("last"), Num(3), W("months")>>,
     <<W("winter"), Num(2023)>>}

\* C24: get_weather returns the current weather when no query is given or the
\* query has no historical indicator in it and no year of 1940-2049; otherwise
\* it returns get_historical_weather's answer for the whole query as the time
\* period, and the documented queries resolve a date range.
C24_QueryDispatch ==
    WeatherFn =>
        /\ (call.query = None \/ ~SpeaksOfPast(The(call.query))) => AnsweredCurrent
        /\ (call.query # None /\ SpeaksOfPast(The(call.query))) => AnsweredHistorical
        /\ (   call.query # None /\ The(call.query) \in DocumentedQueries
            /\ call.env.geo = "found")
               => /\ locals.start_dt # None /\ locals.end_dt # None
                  /\ The(locals.start_dt).day <= The(locals.end_dt).day
                  /\ result.error \in {"", "provider"}

\* C24 witness: "winter 2023" went to the archive and came back with a range
C24_Witness ==
    /\ WeatherFn
    /\ call.query = Some(<<W("winter"), Num(2023)>>)
    /\ result.status = "success"
    /\ locals.start_dt # None
    /\ Len(sent) = 1 /\ sent[1].api = "archive"

(***************************************************************************)
(* What the two natural-language earthquake tools record of the query.     *)
(***************************************************************************)
SmartFn == call.fn \in {"smart_earthquake_search", "smart_location_earthquake_query"}

\* the request made to the USGS service, the last one sent
Searched == sent[Len(sent)]

\* the recorded days, magnitude and radius are those of the request
RecordedAsUsed(context) ==
    /\ Searched.minmagnitude = The(context.magnitude)
    /\ Searched.starttime = Strftime(MinusDays(now, The(context.days)), call.env.pad)
    /\ context.radius_km # None
           => /\ Searched.circle # None
              /\ The(Searched.circle).maxradiuskm = The(context.radius_km)

\* C25: the output of smart_earthquake_search and of
\* smart_location_earthquake_query always records the original query with
\* every resolved field (location, days, magnitude, radius), and the recorded
\* values are the ones the search used.
C25_QueryRecorded ==
    SmartFn =>
        /\ result.context # None
        /\ The(result.context).original_query = call.query
        /\ sent # <<>> => RecordedAsUsed(The(result.context))

(***************************************************************************)
(* The order of the checks of get_historical_weather's validation.         *)
(***************************************************************************)
\* the call reached the validation with the two dates of the caller
SuppliedCall == HistFound /\ ~Falsy(call.start_date) /\ ~Falsy(call.end_date)

\* the text is a date written YYYY-MM-DD
InForm(d) == d.form = "ymd"

\* C26: the validation checks the 5-day delay before the first year, so a
\* range that is both too recent and too old is reported as too recent; a start
\* or end date that is not in YYYY-MM-DD form is reported as an invalid format
\* before either check.
C26_ValidationOrder ==
    SuppliedCall =>
        /\ (~InForm(The(call.start_date)) \/ ~InForm(The(call.end_date)))
               => result.error = "invalid_format" /\ sent = <<>>
        /\ (   WellFormed(The(call.start_date)) /\ WellFormed(The(call.end_date))
            /\ InForm(The(call.start_date)) /\ InForm(The(call.end_date))
            /\ Strptime(The(call.end_date)).day > now.day - 5
            /\ The(call.start_date).y < 1940)
               => result.error = "too_recent" /\ sent = <<>>

(***************************************************************************)
(* get_city_coordinates of the meteorologist: one or two requests to the   *)
(* geocoder and the choice among its results.                              *)
(***************************************************************************)
\* the parameters of one request to the geocoder
GeocodingRequest(name, count) == [api |-> "geocoding", name |-> name, count |-> count]

CityFailure(error, requests) ==
    [result |-> [status |-> "error", error |-> error, type |-> ""],
     locals |-> NoLocals, sent |-> requests]

\* the success built from one result of the geocoder
CityFound(found, type, requests) ==
    [result |-> [status |-> "success", error |-> "", type |-> type,
                 latitude |-> found.latitude, name |-> found.name,
                 country |-> found.country],
     locals |-> NoLocals, sent |-> requests]

\* the positions of the results whose name is the input, letter case aside
NameMatches(results, city) ==
    {i \in 1..Len(results) : Lower(results[i].name) = Lower(city)}

\* the positions of the results whose country is the input, letter case aside
CountryMatches(results, city) ==
    {i \in 1..Len(results) : Lower(results[i].country) = Lower(city)}

\* a choice that looks for the country before the name
Choose_CountryFirst(results, city) ==
    IF CountryMatches(results, city) # {}
    THEN <<Least(CountryMatches(results, city)), "country_capital">>
    ELSE IF NameMatches(results, city) # {}
    THEN <<Least(NameMatches(results, city)), "exact_match">>
    ELSE <<1, "best_match">>

\* lines 41-82: the two loops over the results, then the first result
Choose(results, city) ==
    IF NameMatches(results, city) # {}
    THEN <<Least(NameMatches(results, city)), "exact_match">>
    ELSE IF CountryMatches(results, city) # {}
    THEN <<Least(CountryMatches(results, city)), "country_capital">>
    ELSE <<1, "best_match">>

\* lines 84-120: the search for "<city> capital"
CapitalSearch(city, second, requests) ==
    IF second.kind = "raise" THEN CityFailure("exception", requests)
    ELSE IF second.kind # "json" THEN CityFailure(second.kind, requests)
    ELSE IF second.results # <<>>
    THEN CityFound(second.results[1], "capital_search", requests)
    ELSE CityFailure("not_found", requests)

\* get_city_coordinates; first and second are the answers of the geocoder
CityCoordinates(city, first, second) ==
    IF first.kind = "raise"
    THEN CityFailure("exception", <<GeocodingRequest(<<city>>, 5)>>)
    ELSE IF first.kind # "json"
    THEN CityFailure(first.kind, <<GeocodingRequest(<<city>>, 5)>>)
    ELSE IF first.results # <<>>
    THEN CityFound(first.results[Choose(first.results, city)[1]],
                   Choose(first.results, city)[2],
                   <<GeocodingRequest(<<city>>, 5)>>)
    ELSE CapitalSearch(city, second,
                       <<GeocodingRequest(<<city>>, 5),
                         GeocodingRequest(<<city, "capital">>, 3)>>)

\* most results in one answer of the geocoder
MaxResults == 2

Cities == {"Paris", "PARIS", "France", "Atlantis"}

\* the name and the country of one result
Entries == [name : {"Paris", "paris", "Lyon", "France"}, country : {"France", "Paris", ""}]

\* the answers with n results; the latitude tells the results apart
RECURSIVE ResultLists(_)
ResultLists(n) ==
    IF n = 0 THEN {<<>>}
    ELSE {Append(rest, [name |-> e.name, country |-> e.country, latitude |-> 10 * n]) :
             rest \in ResultLists(n - 1), e \in Entries}

\* what the geocoder may answer: a failed request, a body that is not JSON, a
\* body that does not parse, or a list of results
Answers ==
    {[kind |-> k, results |-> <<>>] : k \in {"raise", "non_json", "bad_json"}}
    \cup {[kind |-> "json", results |-> r] :
             r \in UNION {ResultLists(n) : n \in 0..MaxResults}}

CityCall(city, first, second) ==
    Returns([fn |-> "get_city_coordinates", city |-> city, first |-> first,
             second |-> second],
            CityCoordinates(city, first, second))

get_city_coordinates ==
    /\ call = Idle
    /\ \E city \in Cities, first \in Answers :
           \E second \in IF first.kind = "json" /\ first.results = <<>>
                         THEN {a \in Answers : Len(a.results) <= 1}
                         ELSE {[kind |-> "none", results |-> <<>>]} :
               CityCall(city, first, second)

NextCity == get_city_coordinates \/ Done

SpecCity == InitHist /\ [][NextCity]_vars

CityFn == call.fn = "get_city_coordinates"

\* some result of the first answer has the input as its name, as its country
NamedLike(i) == Lower(call.first.results[i].name) = Lower(call.city)

CountryLike(i) == Lower(call.first.results[i].country) = Lower(call.city)

\* the call returned the result at position i of the answer with the tag type
GaveBack(answer, i, type) ==
    /\ result.status = "success"
    /\ result.type = type
    /\ result.latitude = answer.results[i].latitude
    /\ result.name = answer.results[i].name
    /\ result.country = answer.results[i].country

\* C27: get_city_coordinates makes at most two requests to the geocoder, the
\* second one for "<name> capital" and only when the first answer had no
\* results; among several results an exact name match is preferred to a
\* country name match and that to the first result, and the tag "type" tells
\* which rule applied.
C27_GeocodingFallback ==
    CityFn =>
        /\ Len(sent) \in {1, 2}
        /\ sent[1].name = <<call.city>>
        /\ Len(sent) = 2 <=> (call.first.kind = "json" /\ call.first.results = <<>>)
        /\ Len(sent) = 2 =>
               /\ sent[2].name = <<call.city, "capital">>
               /\ IF call.second.kind = "json" /\ call.second.results # <<>>
                  THEN GaveBack(call.second, 1, "capital_search")
                  ELSE result.status = "error"
        /\ (call.first.kind = "json" /\ call.first.results # <<>>) =>
               IF \E i \in 1..Len(call.first.results) : NamedLike(i)
               THEN \E i \in 1..Len(call.first.results) :
                        /\ NamedLike(i) /\ \A j \in 1..(i - 1) : ~NamedLike(j)
                        /\ GaveBack(call.first, i, "exact_match")
               ELSE IF \E i \in 1..Len(call.first.results) : CountryLike(i)
               THEN \E i \in 1..Len(call.first.results) :
                        /\ CountryLike(i) /\ \A j \in 1..(i - 1) : ~CountryLike(j)
                        /\ GaveBack(call.first, i, "country_capital")
               ELSE GaveBack(call.first, 1, "best_match")
        /\ call.first.kind # "json" => result.status = "error"

\* C27 witness: the first result has the input as its country, the second has
\* it as its name, and the second was returned as the exact match
C27_Witness ==
    /\ CityFn /\ call.city = "France"
    /\ Len(call.first.results) = 2
    /\ CountryLike(1) /\ ~NamedLike(1) /\ NamedLike(2)
    /\ GaveBack(call.first, 2, "exact_match")
    /\ Len(sent) = 1

(***************************************************************************)
(* The local API server.  create_session, get_session and delete_session   *)
(* do not await and run in one step; query_agent awaits the events of the  *)
(* agent, and other handlers run while it waits.                           *)
(***************************************************************************)
\* sessions created, queries started, events of the agent in one query
MaxSessions == 2

MaxQueries == 2

MaxEvents == 1

Users == {"alice"}

\* the ids a request may name: those handed out and one never handed out
SessionIds == 1..(MaxSessions + 1)

Response(op, session_id, code, error, q) ==
    [op |-> op, session_id |-> session_id, code |-> code, error |-> error, q |-> q]

\* table[key] = value
Stored(table, key, value) == (key :> value) @@ table

\* del table[key]
Without(table, key) == [k \in DOMAIN table \ {key} |-> table[k]]

\* a delete that leaves the runner in its table
RunnersAfterDelete_Kept(table, session_id) == table

\* if session_id in runners: del runners[session_id]
RunnersAfterDelete(table, session_id) ==
    IF session_id \in DOMAIN table THEN Without(table, session_id) ELSE table

\* a bookkeeping that stores the session again when it is gone
Bookkeeping_Upsert(table, session_id) ==
    IF session_id \in DOMAIN table
    THEN [raised |-> FALSE,
          sessions |-> [table EXCEPT ![session_id].updates = @ + 1]]
    ELSE [raised |-> FALSE,
          sessions |-> Stored(table, session_id,
                              [id |-> session_id, user_id |-> "", updates |-> 1])]

\* sessions[session_id]["last_update_time"] = ...; sessions[session_id]["state"] = ...
\* (KeyError when the session is not in the table)
Bookkeeping(table, session_id) ==
    IF session_id \in DOMAIN table
    THEN [raised |-> FALSE,
          sessions |-> [table EXCEPT ![session_id].updates = @ + 1]]
    ELSE [raised |-> TRUE, sessions |-> table]

\* a coroutine that has returned or raised
Finished == [session_id |-> 0, pc |-> "done", events |-> 0]

ToolsIdle == UNCHANGED <<now, ticks, call, locals, sent, result>>

\* POST /v1/sessions; the runner or its session may fail to be created
create_session ==
    /\ issued < MaxSessions
    /\ issued' = issued + 1
    /\ \E user_id \in Users, made \in BOOLEAN :
           IF made
           THEN /\ sessions' = Stored(sessions, issued + 1,
                                      [id |-> issued + 1, user_id |-> user_id,
                                       updates |-> 0])
                /\ runners' = Stored(runners, issued + 1, issued + 1)
                /\ response' = Response("create_session", issued + 1, 200, "", 0)
           ELSE /\ UNCHANGED <<sessions, runners>>
                /\ response' = Response("create_session", 0, 500, "failed", 0)
    /\ UNCHANGED queries
    /\ ToolsIdle

\* GET /v1/sessions/{session_id}
get_session ==
    /\ \E session_id \in SessionIds :
           response' = IF session_id \notin DOMAIN sessions
                       THEN Response("get_session", session_id, 404, "not found", 0)
                       ELSE Response("get_session", session_id, 200, "", 0)
    /\ UNCHANGED <<sessions, runners, queries, issued>>
    /\ ToolsIdle

\* POST /v1/sessions/{session_id}/query, up to the first await
query_agent ==
    /\ \E session_id \in SessionIds :
           IF session_id \notin DOMAIN sessions
           THEN /\ response' = Response("query_agent", session_id, 404, "not found", 0)
                /\ UNCHANGED queries
           ELSE IF session_id \notin DOMAIN runners
           THEN /\ response' = Response("query_agent", session_id, 500, "no runner", 0)
                /\ UNCHANGED queries
           ELSE /\ Len(queries) < MaxQueries
                /\ queries' = Append(queries, [session_id |-> session_id,
                                               pc |-> "running", events |-> 0])
                /\ UNCHANGED response
    /\ UNCHANGED <<sessions, runners, issued>>
    /\ ToolsIdle

\* query_agent: runner.run_async yields one more event
query_agent_event ==
    /\ \E q \in DOMAIN queries :
           /\ queries[q].pc = "running"
           /\ queries[q].events < MaxEvents
           /\ queries' = [queries EXCEPT ![q].events = @ + 1]
    /\ UNCHANGED <<sessions, runners, issued, response>>
    /\ ToolsIdle

\* query_agent: runner.run_async raises
query_agent_raise ==
    /\ \E q \in DOMAIN queries :
           /\ queries[q].pc = "running"
           /\ queries' = [queries EXCEPT ![q] = Finished]
           /\ response' = Response("query_agent", queries[q].session_id, 500, "agent", q)
    /\ UNCHANGED <<sessions, runners, issued>>
    /\ ToolsIdle

\* query_agent: the events are over; the session is updated and the answer sent
query_agent_return ==
    /\ \E q \in DOMAIN queries :
           /\ queries[q].pc = "running"
           /\ queries' = [queries EXCEPT ![q] = Finished]
           /\ sessions' = Bookkeeping(sessions, queries[q].session_id).sessions
           /\ response' = IF Bookkeeping(sessions, queries[q].session_id).raised
                          THEN Response("query_agent", queries[q].session_id, 500,
                                        "KeyError", q)
                          ELSE Response("query_agent", queries[q].session_id, 200, "", q)
    /\ UNCHANGED <<runners, issued>>
    /\ ToolsIdle

\* DELETE /v1/sessions/{session_id}
delete_session ==
    /\ \E session_id \in SessionIds :
           IF session_id \notin DOMAIN sessions
           THEN /\ response' = Response("delete_session", session_id, 404, "not found", 0)
                /\ UNCHANGED <<sessions, runners>>
           ELSE /\ sessions' = Without(sessions, session_id)
                /\ runners' = RunnersAfterDelete(runners, session_id)
                /\ response' = Response("delete_session", session_id, 200, "", 0)
    /\ UNCHANGED <<queries, issued>>
    /\ ToolsIdle

NextServer ==
    \/ create_session
    \/ get_session
    \/ query_agent
    \/ query_agent_event
    \/ query_agent_raise
    \/ query_agent_return
    \/ delete_session

SpecServer == InitHist /\ [][NextServer]_vars

\* the step answered a request that named a session on its arrival
AnsweredAtOnce ==
    /\ response' # response
    /\ response'.q = 0
    /\ response'.op \in {"get_session", "query_agent", "delete_session"}

\* C28: after any sequence of create_session, query_agent and delete_session
\* the table of sessions and the table of runners hold the same ids, and a
\* request that names an absent id is answered with 404 and changes neither table.
C28_TablesAgree ==
    [][/\ DOMAIN sessions = DOMAIN runners
       /\ DOMAIN sessions' = DOMAIN runners'
       /\ (AnsweredAtOnce /\ response'.session_id \notin DOMAIN sessions)
              => /\ response'.code = 404
                 /\ sessions' = sessions
                 /\ runners' = runners]_vars

\* C28 witness: a session was created and deleted, another one is still there,
\* and a request for the deleted one was answered with 404
C28_Witness ==
    /\ response.code = 404
    /\ response.session_id \in 1..issued
    /\ response.session_id \notin DOMAIN sessions
    /\ DOMAIN sessions # {}
    /\ DOMAIN sessions = DOMAIN runners

\* C29: when delete_session runs while a query_agent on the same id waits for
\* the agent, the final update of the query never puts the session back, and
\* the query is answered with an error.
C29_DeletedStaysDeleted ==
    [][\A q \in DOMAIN queries :
           (queries[q].pc = "running" /\ queries[q].session_id \notin DOMAIN sessions)
               => /\ queries[q].session_id \notin DOMAIN sessions'
                  /\ queries[q].session_id \notin DOMAIN runners'
                  /\ queries'[q].pc = "done"
                         => /\ response'.q = q
                            /\ response'.code = 500
                            /\ response'.op = "query_agent"]_vars

\* C29 witness: a query found its session deleted when the events were over
\* and was answered with the error, and the session is still absent
C29_Witness ==
    /\ response.op = "query_agent"
    /\ response.q # 0
    /\ response.code = 500
    /\ response.error = "KeyError"
    /\ queries[response.q].pc = "done"
    /\ response.session_id \in 1..issued
    /\ response.session_id \notin DOMAIN sessions

(***************************************************************************)
(* get_flood_risk_assessment of the flood agent.  A forecast is a sequence *)
(* of days [date, discharge_max]; discharge_max is None or a discharge in  *)
(* cubic metres per second.  discharge > threshold * 1.5 is written        *)
(* 2 * discharge > 3 * threshold.                                          *)
(***************************************************************************)
\* threshold_discharge when the caller gives none
DefaultThreshold == 500

\* risk_assessment before the loop
NoRisk ==
    [critical_days |-> <<>>, high_risk_days |-> <<>>, moderate_risk_days |-> <<>>,
     max_discharge_expected |-> 0, days_above_threshold |-> 0,
     overall_risk_level |-> "Low"]

Max(a, b) == IF a >= b THEN a ELSE b

\* the day is appended to the list of every band it exceeds
BandsOf_Every(risk, date, discharge, threshold) ==
    [risk EXCEPT
        !.critical_days = IF discharge > threshold * 2 THEN Append(@, date) ELSE @,
        !.high_risk_days = IF 2 * discharge > threshold * 3 THEN Append(@, date) ELSE @,
        !.moderate_risk_days = IF discharge > threshold THEN Append(@, date) ELSE @]

\* the if / elif / elif over the three bands
BandsOf(risk, date, discharge, threshold) ==
    IF discharge > threshold * 2
    THEN [risk EXCEPT !.critical_days = Append(@, date)]
    ELSE IF 2 * discharge > threshold * 3
    THEN [risk EXCEPT !.high_risk_days = Append(@, date)]
    ELSE IF discharge > threshold
    THEN [risk EXCEPT !.moderate_risk_days = Append(@, date)]
    ELSE risk

\* one turn of the loop over the forecast
AssessDay(risk, day, threshold) ==
    IF day.discharge_max = None THEN risk
    ELSE [BandsOf(risk, day.date, The(day.discharge_max), threshold) EXCEPT
             !.max_discharge_expected = Max(@, The(day.discharge_max)),
             !.days_above_threshold =
                 IF The(day.discharge_max) > threshold THEN @ + 1 ELSE @]

\* the loop over the first n days
RECURSIVE AssessDays(_, _, _)
AssessDays(forecast, threshold, n) ==
    IF n = 0 THEN NoRisk
    ELSE AssessDay(AssessDays(forecast, threshold, n - 1), forecast[n], threshold)

\* "Determine overall risk level"
OverallRisk(risk) ==
    [risk EXCEPT !.overall_risk_level =
        IF risk.critical_days # <<>> THEN "Critical"
        ELSE IF risk.high_risk_days # <<>> THEN "High"
        ELSE IF risk.moderate_risk_days # <<>> THEN "Moderate"
        ELSE @]

FloodResult(status, error, risk, period) ==
    [result |-> [status |-> status, error |-> error, risk_assessment |-> risk,
                 period |-> period],
     locals |-> NoLocals, sent |-> <<>>]

\* get_flood_risk_assessment; flood_data is what get_flood_forecast returned
FloodRiskAssessment(flood_data, threshold_discharge) ==
    IF flood_data.status = "error" THEN FloodResult("error", "forecast", NoRisk, <<>>)
    ELSE IF flood_data.flood_forecast = <<>>
    THEN FloodResult("error", "exception", NoRisk, <<>>)
    ELSE FloodResult("success", "",
                     OverallRisk(AssessDays(flood_data.flood_forecast, threshold_discharge,
                                            Len(flood_data.flood_forecast))),
                     <<flood_data.flood_forecast[1].date,
                       flood_data.flood_forecast[Len(flood_data.flood_forecast)].date>>)

\* most days in one forecast
MaxForecastDays == 3

\* no value, and discharges at and around 1, 1.5 and 2 times the default threshold
Discharges == {None} \cup {Some(d) : d \in {0, 500, 501, 750, 751, 1000, 1001}}

Thresholds == {DefaultThreshold, 333, 0, -100}

\* the forecasts of n days; the date of a day is its number
RECURSIVE Forecasts(_)
Forecasts(n) ==
    IF n = 0 THEN {<<>>}
    ELSE {Append(rest, [date |-> n, discharge_max |-> d]) :
             rest \in Forecasts(n - 1), d \in Discharges}

FloodData ==
    {[status |-> "error", flood_forecast |-> <<>>]}
    \cup {[status |-> "success", flood_forecast |-> f] :
             f \in UNION {Forecasts(n) : n \in 0..MaxForecastDays}}

get_flood_risk_assessment ==
    /\ call = Idle
    /\ \E flood_data \in FloodData, threshold_discharge \in Thresholds :
           Returns([fn |-> "get_flood_risk_assessment", flood_data |-> flood_data,
                    threshold_discharge |-> threshold_discharge],
                   FloodRiskAssessment(flood_data, threshold_discharge))

NextFlood == get_flood_risk_assessment \/ Done

SpecFlood == InitHist /\ [][NextFlood]_vars

Assessed == call.fn = "get_flood_risk_assessment" /\ result.status = "success"

\* the dates of a list
DatesOf(list) == {list[i] : i \in 1..Len(list)}

\* the days of the forecast that have a discharge
Measured ==
    {j \in 1..Len(call.flood_data.flood_forecast) :
        call.flood_data.flood_forecast[j].discharge_max # None}

DischargeOn(j) == The(call.flood_data.flood_forecast[j].discharge_max)

DateOn(j) == call.flood_data.flood_forecast[j].date

\* the days above 2x the threshold; above 1.5x and not above 2x; above 1x and
\* not above 1.5x
CriticalBand ==
    {DateOn(j) : j \in {k \in Measured : DischargeOn(k) > 2 * call.threshold_discharge}}

HighBand ==
    {DateOn(j) : j \in {k \in Measured :
                           /\ 2 * DischargeOn(k) > 3 * call.threshold_discharge
                           /\ DischargeOn(k) <= 2 * call.threshold_discharge}}

ModerateBand ==
    {DateOn(j) : j \in {k \in Measured :
                           /\ DischargeOn(k) > call.threshold_discharge
                           /\ 2 * DischargeOn(k) <= 3 * call.threshold_discharge}}

====
